---- MODULE Spec2Model ----
(***************************************************************************)
(* A model of the MockForge Python SDK's embedded mock server              *)
(* (sdk/python/mockforge_sdk/mock_server.py): the launch of the child      *)
(* process, the two reader threads that scan its output for port           *)
(* announcements, the readiness wait, and stop().                          *)
(*                                                                         *)
(* Wall-clock time enters the program through one test only,               *)
(* time.time() - start_time < timeout.  A sleep or a request lasts as long *)
(* as the machine makes it last, so the deadline may pass during any of    *)
(* them: the model keeps whether it has passed.                            *)
(***************************************************************************)
EXTENDS Integers, Sequences, FiniteSets, TLC

\* ------------------------------------------------------------------ bounds

\* Child processes one server object may spawn (calls of start() that spawn).
MaxProcs == 2
\* Lines read from the stdout pipes, over all children.
MaxLines == 2
\* Lines read from the stderr pipes, over all children.
MaxErrLines == 1

\* ------------------------------------------------------- program constants

\* _wait_for_server(timeout=12): seconds.
Timeout == 12
\* max_port_detection_attempts.
MaxPortDetectionAttempts == 20
\* MockServerConfig.port's default: 0 asks the OS for a port.
DefaultPort == 0
\* A port given to the constructor, as the tests do (MockServer(port=3000)).
CfgPort == 3000
\* Python's None, for process and admin_port.
None == -1

\* The timeout passed on in seconds.
TimeoutSeconds == Timeout

\* int(timeout * 1000)
TimeoutMs == Timeout * 1000

Procs == 1..MaxProcs
Callers == {"main", "other"}

Min(S) == CHOOSE x \in S : \A y \in S : x <= y
Max(S) == CHOOSE x \in S : \A y \in S : x >= y

\* ------------------------------------------------- the child's output lines

\* A line is a sequence of tokens; a digit is a token of its own.
Digits == {"0", "1", "2", "3", "4", "5", "6", "7", "8", "9"}

DigitVal(t) ==
  CASE t = "0" -> 0 [] t = "1" -> 1 [] t = "2" -> 2 [] t = "3" -> 3
    [] t = "4" -> 4 [] t = "5" -> 5 [] t = "6" -> 6 [] t = "7" -> 7
    [] t = "8" -> 8 [] t = "9" -> 9

HttpUrlLine(ds) ==
  <<"HTTP server ", "listening on http://", "localhost", ":">> \o ds \o <<"\n">>

HttpPortLine(ds) == <<"HTTP server ", "on port ">> \o ds \o <<"\n">>

AdminUrlLine(ds) ==
  <<"Admin UI ", "listening on http://", "localhost", ":">> \o ds \o <<"\n">>

AdminPortLine(ds) == <<"Admin UI ", "on port ">> \o ds \o <<"\n">>

NoiseLine == <<"Starting MockForge", "\n">>


\* One line that carries both announcements.
BothPortsLine(hs, as) ==
  <<"HTTP server ", "on port ">> \o hs \o <<", ", "Admin UI ", "on port ">> \o as \o <<"\n">>

\* What the children of a restarted server write: the first announces both
\* ports, a later one another admin port.
RestartLines == { BothPortsLine(<<"8">>, <<"9">>), AdminPortLine(<<"7">>) }

\* What a child may write to stdout.
StdoutLines ==
  { HttpUrlLine(<<"0">>), HttpPortLine(<<"8">>), HttpUrlLine(<<"7", "0", "0", "0", "0">>),
    AdminUrlLine(<<"9">>), AdminPortLine(<<"0">>), NoiseLine }

\* What a child may write to stderr.
StderrLines ==
  { HttpPortLine(<<"8">>), AdminUrlLine(<<"9">>), <<"error", ":", "bind failed", "\n">> }

\* ''.join(stdout_buffer)
RECURSIVE Join(_)
Join(buf) == IF buf = <<>> THEN <<>> ELSE Head(buf) \o Join(Tail(buf))

\* int(digits)
RECURSIVE ParseInt(_)
ParseInt(ds) ==
  IF ds = <<>> THEN 0
  ELSE ParseInt(SubSeq(ds, 1, Len(ds) - 1)) * 10 + DigitVal(ds[Len(ds)])

\* (\d+) at position k: the longest run of digits that starts there.
DigitRun(s, k) ==
  LET ends == {j \in k..Len(s) : \A m \in k..j : s[m] \in Digits}
  IN  IF ends = {} THEN <<>> ELSE SubSeq(s, k, Max(ends))

\* [^:] : a token that holds no colon.
ColonFree(t) == t \notin {":", "listening on http://"}

\* The pattern  <prefix>(?:listening on http://[^:]+:|on port )(\d+)  tried at
\* position i of s: the captured digits, or <<>> when it does not match there.
MatchAt(prefix, s, i) ==
  IF i + 1 > Len(s) \/ s[i] # prefix THEN <<>>
  ELSE IF s[i + 1] = "on port " THEN DigitRun(s, i + 2)
  ELSE IF s[i + 1] = "listening on http://"
    THEN LET colons == {j \in (i + 2)..Len(s) : ~ColonFree(s[j])}
         IN  IF colons = {} THEN <<>>
             ELSE LET j == Min(colons)
                  IN  IF j >= i + 3 /\ s[j] = ":" THEN DigitRun(s, j + 1) ELSE <<>>
  ELSE <<>>

\* re.search: the leftmost match; <<>> stands for "no match".
Search(prefix, s) ==
  LET hits == {i \in 1..Len(s) : MatchAt(prefix, s, i) # <<>>}
  IN  IF hits = {} THEN <<>> ELSE MatchAt(prefix, s, Min(hits))

HttpMatch(buf) == Search("HTTP server ", Join(buf))
AdminMatch(buf) == Search("Admin UI ", Join(buf))

\* ------------------------------------------------------------------ errors

NoError == [code |-> "none"]

CliNotFound(cause) ==
  [code |-> "CLI_NOT_FOUND", cause |-> cause,
   details |-> [hint |-> "Ensure mockforge is in your PATH"]]

ServerStartFailed(cause) ==
  [code |-> "SERVER_START_FAILED", cause |-> cause, details |-> <<>>]

PortDetectionFailed ==
  [code |-> "PORT_DETECTION_FAILED", cause |-> "None",
   details |-> [hint |-> "Check that mockforge CLI is installed and the server started successfully"]]

HealthCheckTimeout(timeout, p) ==
  [code |-> "HEALTH_CHECK_TIMEOUT", cause |-> "None",
   details |-> [timeout |-> timeout, port |-> p,
                hint |-> "Check that the server started successfully"]]

\* None.terminate(), None.wait(), None.kill()
AttributeError == [code |-> "AttributeError", cause |-> "None", details |-> <<>>]

\* What subprocess.Popen may do: return, or raise.
SpawnOutcomes == {"ok", "FileNotFoundError", "OSError"}

\* The except clauses with their errors exchanged.
SpawnErrorSwapped(exc) ==
  IF exc = "FileNotFoundError" THEN ServerStartFailed(exc) ELSE CliNotFound(exc)

\* start()'s except clauses around Popen.
SpawnError(exc) ==
  IF exc = "FileNotFoundError" THEN CliNotFound(exc) ELSE ServerStartFailed(exc)

\* ------------------------------------------------------------------- state

VARIABLES
  config,         \* MockServerConfig: [port, config_file, openapi_spec]
  process,        \* self.process: None, or the child held
  port,           \* self.port
  admin_port,     \* self.admin_port
  stubs,          \* self.stubs
  pstate,         \* each child: "unspawned", "alive", "exited"
  sigterm,        \* SIGTERMs delivered to each child
  sigkill,        \* SIGKILLs delivered to each child
  stdout_buffer,  \* stdout_buffer of the start() call that spawned each child
  stderr_buffer,  \* stderr_buffer of that call
  rout,           \* where each read_stdout thread stands
  rerr,           \* where each read_stderr thread stands
  pc,             \* where each caller stands
  attempts,       \* port_detection_attempts
  expired,        \* time.time() - start_time >= timeout: the deadline has passed
  hport,          \* the port of the health request in flight
  waitOn,         \* the child each caller's process.wait() waits for
  lastOp,         \* how each caller's last call ended
  err,            \* what each caller's last call raised
  child,          \* the child the last start() spawned (None: it spawned none)
  probes,         \* ports the current start() sent GET /health to
  healthOk,       \* ports whose GET /health answered 200 during the current start()
  everStarted,    \* start() has been called
  args,           \* start(): the argument list built, until Popen has taken it
  added,          \* the stubs passed to stub_response since the last clear_stubs
  reqs,           \* the HTTP requests the current client call has issued
  todo,           \* clear_stubs: the mocks still to delete
  call,           \* the current client call and its arguments
  result,         \* what the last verification call returned
  builder,        \* the StubBuilder in use: its fields, _headers a reference
  heap,           \* the dict objects created by StubBuilder.__init__, by reference
  built           \* the stubs build() has returned, headers a reference

vars ==
  <<config, process, port, admin_port, stubs, pstate, sigterm, sigkill,
    stdout_buffer, stderr_buffer, rout, rerr, pc, attempts, expired, hport,
    waitOn, lastOp, err, child, probes, healthOk, everStarted, args,
    added, reqs, todo, call, result, builder, heap, built>>

procVars == <<pstate, sigterm, sigkill>>
readerVars == <<stdout_buffer, stderr_buffer, rout, rerr>>
waitVars == <<attempts, expired, hport>>
ghostVars == <<child, probes, healthOk, everStarted>>
clientVars == <<added, reqs, todo, call, result>>
builderVars == <<builder, heap, built>>

\* No StubBuilder yet.
NoBuilder == [method |-> "none"]

\* No client call yet, and nothing returned yet.
NoCall == [op |-> "none"]
NoResult == [op |-> "none"]

NumSpawned == Cardinality({p \in Procs : pstate[p] # "unspawned"})

RECURSIVE SumLen(_, _)
SumLen(f, S) ==
  IF S = {} THEN 0
  ELSE LET p == CHOOSE x \in S : TRUE IN Len(f[p]) + SumLen(f, S \ {p})

StopPcs == {"s_if", "s_term", "s_wait", "s_waiting", "s_kill", "s_clear"}

\* stop() is the one operation that callers may run concurrently: a caller
\* begins a call only while the other caller is idle or inside stop().
MayBegin(t, op) ==
  /\ pc[t] = "idle"
  /\ \A u \in Callers \ {t} :
       \/ pc[u] = "idle"
       \/ op = "stop" /\ pc[u] \in StopPcs

\* is_running() with the test of poll() inverted.
IsRunningInverted == process # None /\ pstate[process] # "alive"

\* is_running()
IsRunning == process # None /\ pstate[process] = "alive"

\* The configurations: those of the tests, which set the port alone, and
\* those that also name a config file or an OpenAPI spec, or ask for a port
\* that no socket has.  "None" stands for None.
Configs == [port : {DefaultPort, CfgPort}, config_file : {"None"}, openapi_spec : {"None"}]

LaunchConfigs ==
  [port : {DefaultPort, CfgPort, 70000}, config_file : {"None", "mockforge.yaml"},
   openapi_spec : {"None", "openapi.json"}]

\* MockServer(...): the state after __init__.
Constructed(cfg) ==
  /\ config = cfg
  /\ process = None
  /\ port = config.port
  /\ admin_port = None
  /\ stubs = <<>>
  /\ pstate = [p \in Procs |-> "unspawned"]
  /\ sigterm = [p \in Procs |-> 0]
  /\ sigkill = [p \in Procs |-> 0]
  /\ stdout_buffer = [p \in Procs |-> <<>>]
  /\ stderr_buffer = [p \in Procs |-> <<>>]
  /\ rout = [p \in Procs |-> "none"]
  /\ rerr = [p \in Procs |-> "none"]
  /\ pc = [t \in Callers |-> "idle"]
  /\ attempts = 0
  /\ expired = FALSE
  /\ hport = 0
  /\ waitOn = [t \in Callers |-> None]
  /\ lastOp = [t \in Callers |-> "none"]
  /\ err = [t \in Callers |-> NoError]
  /\ child = None
  /\ probes = {}
  /\ healthOk = {}
  /\ everStarted = FALSE
  /\ args = <<>>
  /\ added = <<>>
  /\ reqs = <<>>
  /\ todo = <<>>
  /\ call = NoCall
  /\ result = NoResult
  /\ builder = NoBuilder
  /\ heap = <<>>
  /\ built = <<>>

Init == \E cfg \in Configs : Constructed(cfg)

InitLaunch == \E cfg \in LaunchConfigs : Constructed(cfg)

\* ----------------------------------------------------------------- start()

\* A call ends by raising e.
Raises(t, op, e) ==
  /\ pc' = [pc EXCEPT ![t] = "idle"]
  /\ lastOp' = [lastOp EXCEPT ![t] = op \o "_raised"]
  /\ err' = [err EXCEPT ![t] = e]

\* A call ends by returning.
Returns(t, op) ==
  /\ pc' = [pc EXCEPT ![t] = "idle"]
  /\ lastOp' = [lastOp EXCEPT ![t] = op \o "_ok"]
  /\ err' = [err EXCEPT ![t] = NoError]

\* A call begins.
Begins(t, to) ==
  /\ pc' = [pc EXCEPT ![t] = to]
  /\ lastOp' = [lastOp EXCEPT ![t] = "pending"]
  /\ err' = [err EXCEPT ![t] = NoError]

\* str(n) of an int that is not negative
DigitChar(d) ==
  CASE d = 0 -> "0" [] d = 1 -> "1" [] d = 2 -> "2" [] d = 3 -> "3" [] d = 4 -> "4"
    [] d = 5 -> "5" [] d = 6 -> "6" [] d = 7 -> "7" [] d = 8 -> "8" [] d = 9 -> "9"

RECURSIVE Str(_)
Str(n) == IF n < 10 THEN DigitChar(n) ELSE Str(n \div 10) \o DigitChar(n % 10)

\* The truth value of an optional string: None and '' are false.
Truthy(s) == s # "None" /\ s # ""


\* The argument list built from the configured port instead of self.port.
ArgsOfConfig ==
  <<"mockforge", "serve">>
    \o (IF Truthy(config.config_file) THEN <<"--config", config.config_file>> ELSE <<>>)
    \o (IF Truthy(config.openapi_spec) THEN <<"--spec", config.openapi_spec>> ELSE <<>>)
    \o (IF config.port # 0 THEN <<"--http-port", Str(config.port)>> ELSE <<"--http-port", "0">>)
    \o <<"--admin", "--admin-port", "0">>

\* The args list start() builds, from self.config and self.port.
Args ==
  <<"mockforge", "serve">>
    \o (IF Truthy(config.config_file) THEN <<"--config", config.config_file>> ELSE <<>>)
    \o (IF Truthy(config.openapi_spec) THEN <<"--spec", config.openapi_spec>> ELSE <<>>)
    \o (IF port # 0 THEN <<"--http-port", Str(port)>> ELSE <<"--http-port", "0">>)
    \o <<"--admin", "--admin-port", "0">>

\* start() is called and builds the argument list.
StartBegin ==
  /\ MayBegin("main", "start")
  /\ Begins("main", "spawn")
  /\ child' = None
  /\ probes' = {}
  /\ healthOk' = {}
  /\ everStarted' = TRUE
  /\ args' = Args
  /\ UNCHANGED <<builderVars, clientVars, config, process, port, admin_port, stubs, procVars, readerVars,
                 waitVars, waitOn>>

\* subprocess.Popen(args) raises: start() raises the standardized error.
StartSpawnFails(exc) ==
  /\ pc["main"] = "spawn"
  /\ exc \in SpawnOutcomes \ {"ok"}
  /\ Raises("main", "start", SpawnError(exc))
  /\ args' = <<>>
  /\ UNCHANGED <<builderVars, clientVars, config, process, port, admin_port, stubs, procVars, readerVars,
                 waitVars, waitOn, ghostVars>>

\* subprocess.Popen(args) returns child p: start() keeps it, starts the two reader
\* threads and enters _wait_for_server (start_time = time.time()).  Each
\* reader tests self.process (the child just spawned) as it starts.
StartSpawns ==
  /\ pc["main"] = "spawn"
  /\ NumSpawned < MaxProcs
  /\ LET p == NumSpawned + 1
     IN  /\ process' = p
         /\ child' = p
         /\ pstate' = [pstate EXCEPT ![p] = "alive"]
         /\ rout' = [rout EXCEPT ![p] = "read"]
         /\ rerr' = [rerr EXCEPT ![p] = "read"]
  /\ attempts' = 0
  /\ expired' = FALSE
  /\ pc' = [pc EXCEPT !["main"] = "w_loop"]
  /\ args' = <<>>
  /\ UNCHANGED <<builderVars, clientVars, config, port, admin_port, stubs, sigterm, sigkill, stdout_buffer,
                 stderr_buffer, hport, waitOn, lastOp, err, probes, healthOk,
                 everStarted>>

\* ------------------------------------------------------- _wait_for_server()

\* A loop without a deadline: while True.
BeforeDeadlineNever == TRUE

\* The loop test, time.time() - start_time < timeout.
BeforeDeadline == ~expired


\* A wait that sleeps for a port while attempts are left, whatever self.port.
AwaitsPortByBudget == attempts < MaxPortDetectionAttempts

\* The test that sends the wait to sleep for a port announcement.
AwaitsPort == port = 0 /\ attempts < MaxPortDetectionAttempts

\* The loop test and the first test of the body.  After the deadline the
\* loop ends and the wait raises HEALTH_CHECK_TIMEOUT with self.port as it is
\* then; before it, a wait with no port yet sleeps and tries again (late: the
\* deadline passes during the sleep).
WaitLoop(late) ==
  /\ pc["main"] = "w_loop"
  /\ late \in BOOLEAN
  /\ IF ~BeforeDeadline
       THEN /\ Raises("main", "start", HealthCheckTimeout(TimeoutMs, port))
            /\ attempts' = 0
            /\ expired' = FALSE
       ELSE IF AwaitsPort
         THEN /\ attempts' = attempts + 1
              /\ expired' = late
              /\ UNCHANGED <<pc, lastOp, err>>
         ELSE /\ pc' = [pc EXCEPT !["main"] = "w_chk"]
              /\ UNCHANGED <<attempts, expired, lastOp, err>>
  /\ UNCHANGED <<args, builderVars, clientVars, config, process, port, admin_port, stubs, procVars, readerVars,
                 hport, waitOn, ghostVars>>


\* A wait that goes on to the health check whatever self.port holds.
WaitCheckPortProbing ==
  /\ pc["main"] = "w_chk"
  /\ pc' = [pc EXCEPT !["main"] = "w_send"]
  /\ UNCHANGED <<attempts, expired, lastOp, err>>
  /\ UNCHANGED <<args, builderVars, clientVars, config, process, port, admin_port, stubs, procVars, readerVars,
                 hport, waitOn, ghostVars>>

\* A wait that gives up once the attempts are used up, whatever self.port.
WaitCheckPortByBudget ==
  /\ pc["main"] = "w_chk"
  /\ IF port = 0 \/ attempts >= MaxPortDetectionAttempts
       THEN /\ Raises("main", "start", PortDetectionFailed)
            /\ attempts' = 0
            /\ expired' = FALSE
       ELSE /\ pc' = [pc EXCEPT !["main"] = "w_send"]
            /\ UNCHANGED <<attempts, expired, lastOp, err>>
  /\ UNCHANGED <<args, builderVars, clientVars, config, process, port, admin_port, stubs, procVars, readerVars,
                 hport, waitOn, ghostVars>>

\* if self.port == 0: raise PORT_DETECTION_FAILED
WaitCheckPort ==
  /\ pc["main"] = "w_chk"
  /\ IF port = 0
       THEN /\ Raises("main", "start", PortDetectionFailed)
            /\ attempts' = 0
            /\ expired' = FALSE
       ELSE /\ pc' = [pc EXCEPT !["main"] = "w_send"]
            /\ UNCHANGED <<attempts, expired, lastOp, err>>
  /\ UNCHANGED <<args, builderVars, clientVars, config, process, port, admin_port, stubs, procVars, readerVars,
                 hport, waitOn, ghostVars>>

\* requests.get(f"http://{host}:{self.port}/health", timeout=0.2) is sent.
WaitSendHealth ==
  /\ pc["main"] = "w_send"
  /\ hport' = port
  /\ probes' = probes \cup {port}
  /\ pc' = [pc EXCEPT !["main"] = "w_recv"]
  /\ UNCHANGED <<args, builderVars, clientVars, config, process, port, admin_port, stubs, procVars, readerVars,
                 attempts, expired, waitOn, lastOp, err, child, healthOk, everStarted>>

\* What the health request may end with.
HealthOutcomes == {"200", "non200", "RequestException"}

\* A URL whose port is out of the TCP range is refused by requests with
\* InvalidURL, a RequestException, before anything is sent.
HealthOutcomesOf(p) ==
  IF p \in 1..(2^16 - 1) THEN HealthOutcomes ELSE {"RequestException"}

\* The health request ends: 200 returns from the wait, another status loops
\* at once, a RequestException sleeps first (late: the deadline passes during
\* the request or the sleep).
WaitRecvHealth(outcome, late) ==
  /\ pc["main"] = "w_recv"
  /\ outcome \in HealthOutcomesOf(hport)
  /\ late \in BOOLEAN
  /\ IF outcome = "200"
       THEN /\ Returns("main", "start")
            /\ healthOk' = healthOk \cup {hport}
            /\ attempts' = 0
            /\ expired' = FALSE
       ELSE /\ pc' = [pc EXCEPT !["main"] = "w_loop"]
            /\ expired' = (expired \/ late)
            /\ UNCHANGED <<attempts, lastOp, err, healthOk>>
  /\ hport' = 0
  /\ UNCHANGED <<args, builderVars, clientVars, config, process, port, admin_port, stubs, procVars, readerVars,
                 waitOn, child, probes, everStarted>>

\* ----------------------------------------------------------- reader threads

\* The HTTP port stored whenever the buffer holds one: no test of self.port.
HttpDetectedUntested(buf, cur) ==
  LET m == HttpMatch(buf)
  IN  IF m # <<>> /\ ParseInt(m) > 0 THEN ParseInt(m) ELSE 0

\* _parse_ports_from_output's test for the HTTP port, on the joined buffer.
HttpDetected(buf, cur) ==
  LET m == HttpMatch(buf)
  IN  IF m # <<>> /\ cur = 0 /\ ParseInt(m) > 0 THEN ParseInt(m) ELSE 0

\* _parse_ports_from_output's test for the admin port.
AdminDetected(buf, cur) ==
  LET m == AdminMatch(buf)
  IN  IF m # <<>> /\ cur = None /\ ParseInt(m) > 0 THEN ParseInt(m) ELSE 0

\* Where _parse_ports_from_output goes after its test of the HTTP port has
\* failed, or after it has stored the HTTP port: to the admin port.
AfterHttp(buf) == IF AdminDetected(buf, admin_port) > 0 THEN "set_admin" ELSE "read"

\* read_stdout reads a line the child wrote, appends it, and
\* _parse_ports_from_output searches the joined buffer and tests self.port;
\* when that test fails it goes on to the test of self.admin_port.
ReadStdout(p, line) ==
  /\ rout[p] = "read"
  /\ SumLen(stdout_buffer, Procs) < MaxLines
  /\ line \in StdoutLines \cup RestartLines
  /\ stdout_buffer' = [stdout_buffer EXCEPT ![p] = Append(@, line)]
  /\ rout' = [rout EXCEPT ![p] =
       IF HttpDetected(stdout_buffer'[p], port) > 0
         THEN "set_http"
         ELSE AfterHttp(stdout_buffer'[p])]
  /\ UNCHANGED <<args, builderVars, clientVars, config, process, port, admin_port, stubs, procVars, stderr_buffer,
                 rerr, pc, waitVars, waitOn, lastOp, err, ghostVars>>

\* self.port = detected_port
SetHttpPort(p) ==
  /\ rout[p] = "set_http"
  /\ port' = ParseInt(HttpMatch(stdout_buffer[p]))
  /\ rout' = [rout EXCEPT ![p] = "chk_admin"]
  /\ UNCHANGED <<args, builderVars, clientVars, config, process, admin_port, stubs, procVars, stdout_buffer,
                 stderr_buffer, rerr, pc, waitVars, waitOn, lastOp, err, ghostVars>>

\* The test of self.admin_port, after self.port has been stored.
CheckAdminPort(p) ==
  /\ rout[p] = "chk_admin"
  /\ rout' = [rout EXCEPT ![p] = AfterHttp(stdout_buffer[p])]
  /\ UNCHANGED <<args, builderVars, clientVars, config, process, port, admin_port, stubs, procVars, stdout_buffer,
                 stderr_buffer, rerr, pc, waitVars, waitOn, lastOp, err, ghostVars>>

\* self.admin_port = detected_admin_port
SetAdminPort(p) ==
  /\ rout[p] = "set_admin"
  /\ admin_port' = ParseInt(AdminMatch(stdout_buffer[p]))
  /\ rout' = [rout EXCEPT ![p] = "read"]
  /\ UNCHANGED <<args, builderVars, clientVars, config, process, port, stubs, procVars, stdout_buffer,
                 stderr_buffer, rerr, pc, waitVars, waitOn, lastOp, err, ghostVars>>

\* A read_stdout that ends only once the caller is back from its call.
StdoutEofAfterCaller(p) ==
  /\ rout[p] = "read"
  /\ pstate[p] = "exited"
  /\ pc["main"] = "idle"
  /\ rout' = [rout EXCEPT ![p] = "done"]
  /\ UNCHANGED <<args, builderVars, clientVars, config, process, port, admin_port, stubs, procVars, stdout_buffer,
                 stderr_buffer, rerr, pc, waitVars, waitOn, lastOp, err, ghostVars>>

\* readline returns '' once the child has exited and the pipe is drained.
StdoutEof(p) ==
  /\ rout[p] = "read"
  /\ pstate[p] = "exited"
  /\ rout' = [rout EXCEPT ![p] = "done"]
  /\ UNCHANGED <<args, builderVars, clientVars, config, process, port, admin_port, stubs, procVars, stdout_buffer,
                 stderr_buffer, rerr, pc, waitVars, waitOn, lastOp, err, ghostVars>>

\* A read_stderr that hands its buffer to _parse_ports_from_output.
ReadStderrParsed(p, line) ==
  /\ rerr[p] = "read"
  /\ SumLen(stderr_buffer, Procs) < MaxErrLines
  /\ line \in StderrLines
  /\ stderr_buffer' = [stderr_buffer EXCEPT ![p] = Append(@, line)]
  /\ port' = IF HttpDetected(stderr_buffer'[p], port) > 0
               THEN HttpDetected(stderr_buffer'[p], port) ELSE port
  /\ admin_port' = IF AdminDetected(stderr_buffer'[p], admin_port) > 0
                     THEN AdminDetected(stderr_buffer'[p], admin_port) ELSE admin_port
  /\ UNCHANGED <<args, builderVars, clientVars, config, process, stubs, procVars, stdout_buffer,
                 rout, rerr, pc, waitVars, waitOn, lastOp, err, ghostVars>>

\* read_stderr reads a line and appends it: nothing else.
ReadStderr(p, line) ==
  /\ rerr[p] = "read"
  /\ SumLen(stderr_buffer, Procs) < MaxErrLines
  /\ line \in StderrLines
  /\ stderr_buffer' = [stderr_buffer EXCEPT ![p] = Append(@, line)]
  /\ UNCHANGED <<args, builderVars, clientVars, config, process, port, admin_port, stubs, procVars, stdout_buffer,
                 rout, rerr, pc, waitVars, waitOn, lastOp, err, ghostVars>>

StderrEof(p) ==
  /\ rerr[p] = "read"
  /\ pstate[p] = "exited"
  /\ rerr' = [rerr EXCEPT ![p] = "done"]
  /\ UNCHANGED <<args, builderVars, clientVars, config, process, port, admin_port, stubs, procVars, stdout_buffer,
                 stderr_buffer, rout, pc, waitVars, waitOn, lastOp, err, ghostVars>>

\* ---------------------------------------------------------------- the child

\* The child exits on its own (or because of a SIGTERM it received).
ChildExits(p) ==
  /\ pstate[p] = "alive"
  /\ pstate' = [pstate EXCEPT ![p] = "exited"]
  /\ UNCHANGED <<args, builderVars, clientVars, config, process, port, admin_port, stubs, sigterm, sigkill,
                 readerVars, pc, waitVars, waitOn, lastOp, err, ghostVars>>

\* ------------------------------------------------------------------ stop()

\* A signal sent without polling first.
SignalledUnpolled(count, p) == [count EXCEPT ![p] = @ + 1]

\* Popen.send_signal polls first and signals only a child that has not exited.
Signalled(count, p) == IF pstate[p] = "alive" THEN [count EXCEPT ![p] = @ + 1] ELSE count

\* stop() without its test of self.process.
HoldsProcessUntested == TRUE

\* if self.process:
HoldsProcess == process # None

\* stop() is called.
StopBegin(t) ==
  /\ MayBegin(t, "stop")
  /\ Begins(t, "s_if")
  /\ UNCHANGED <<args, builderVars, clientVars, config, process, port, admin_port, stubs, procVars, readerVars,
                 waitVars, waitOn, ghostVars>>

\* The test of self.process: with no process stop() returns at once.
StopTest(t) ==
  /\ pc[t] = "s_if"
  /\ IF HoldsProcess
       THEN /\ pc' = [pc EXCEPT ![t] = "s_term"]
            /\ UNCHANGED <<lastOp, err>>
       ELSE Returns(t, "stop")
  /\ UNCHANGED <<args, builderVars, clientVars, config, process, port, admin_port, stubs, procVars, readerVars,
                 waitVars, waitOn, ghostVars>>

\* self.process.terminate()
StopTerminate(t) ==
  /\ pc[t] = "s_term"
  /\ IF process = None
       THEN /\ Raises(t, "stop", AttributeError)
            /\ UNCHANGED sigterm
       ELSE /\ sigterm' = Signalled(sigterm, process)
            /\ pc' = [pc EXCEPT ![t] = "s_wait"]
            /\ UNCHANGED <<lastOp, err>>
  /\ UNCHANGED <<args, builderVars, clientVars, config, process, port, admin_port, stubs, pstate, sigkill,
                 readerVars, waitVars, waitOn, ghostVars>>

\* self.process.wait(timeout=5) is entered: the wait is on the child held now.
StopWait(t) ==
  /\ pc[t] = "s_wait"
  /\ IF process = None
       THEN /\ Raises(t, "stop", AttributeError)
            /\ UNCHANGED waitOn
       ELSE /\ waitOn' = [waitOn EXCEPT ![t] = process]
            /\ pc' = [pc EXCEPT ![t] = "s_waiting"]
            /\ UNCHANGED <<lastOp, err>>
  /\ UNCHANGED <<args, builderVars, clientVars, config, process, port, admin_port, stubs, procVars, readerVars,
                 waitVars, ghostVars>>

\* A stop() that force-kills whatever the wait returned.
StopWaitExitedKilling(t) ==
  /\ pc[t] = "s_waiting"
  /\ pstate[waitOn[t]] = "exited"
  /\ pc' = [pc EXCEPT ![t] = "s_kill"]
  /\ waitOn' = [waitOn EXCEPT ![t] = None]
  /\ UNCHANGED <<args, builderVars, clientVars, config, process, port, admin_port, stubs, procVars, readerVars,
                 waitVars, lastOp, err, ghostVars>>

\* wait returns: the child has exited within the grace period.
StopWaitExited(t) ==
  /\ pc[t] = "s_waiting"
  /\ pstate[waitOn[t]] = "exited"
  /\ pc' = [pc EXCEPT ![t] = "s_clear"]
  /\ waitOn' = [waitOn EXCEPT ![t] = None]
  /\ UNCHANGED <<args, builderVars, clientVars, config, process, port, admin_port, stubs, procVars, readerVars,
                 waitVars, lastOp, err, ghostVars>>

\* wait raises TimeoutExpired: the child is still alive after the grace period.
StopWaitTimeout(t) ==
  /\ pc[t] = "s_waiting"
  /\ pstate[waitOn[t]] = "alive"
  /\ pc' = [pc EXCEPT ![t] = "s_kill"]
  /\ waitOn' = [waitOn EXCEPT ![t] = None]
  /\ UNCHANGED <<args, builderVars, clientVars, config, process, port, admin_port, stubs, procVars, readerVars,
                 waitVars, lastOp, err, ghostVars>>

\* self.process.kill(), in the handler of TimeoutExpired
StopKill(t) ==
  /\ pc[t] = "s_kill"
  /\ IF process = None
       THEN /\ Raises(t, "stop", AttributeError)
            /\ UNCHANGED <<sigkill, pstate>>
       ELSE /\ sigkill' = Signalled(sigkill, process)
            /\ pstate' = [pstate EXCEPT ![process] = "exited"]
            /\ pc' = [pc EXCEPT ![t] = "s_clear"]
            /\ UNCHANGED <<lastOp, err>>
  /\ UNCHANGED <<args, builderVars, clientVars, config, process, port, admin_port, stubs, sigterm,
                 readerVars, waitVars, waitOn, ghostVars>>

\* self.process = None, and stop() returns.
StopClear(t) ==
  /\ pc[t] = "s_clear"
  /\ process' = None
  /\ Returns(t, "stop")
  /\ UNCHANGED <<args, builderVars, clientVars, config, port, admin_port, stubs, procVars, readerVars,
                 waitVars, waitOn, ghostVars>>

\* ------------------------------------------------------------ the stub list

MaxStubs == 2
MaxMocks == 2

\* str.upper() of the method names drawn.
Upper(m) == CASE m = "get" -> "GET" [] m = "post" -> "POST" [] OTHER -> m

\* Arguments of stub_response. Headers are a set of <<name, value>> pairs
\* (None and {} are both no headers); latency_ms is None or a number.
StubArgs ==
  { [method |-> "get", path |-> "/a", body |-> "a", status |-> 200,
     headers |-> {}, latency_ms |-> None],
    [method |-> "POST", path |-> "/b", body |-> "b", status |-> 201,
     headers |-> {<<"h", "v">>}, latency_ms |-> 5] }

\* ResponseStub(method=method.upper(), ..., headers=headers or {}, ...)
ResponseStub(a) ==
  [method |-> Upper(a.method), path |-> a.path, body |-> a.body,
   status |-> a.status, headers |-> a.headers, latency_ms |-> a.latency_ms]

\* The payload without the id.
MockConfigOmittingId(stub) ==
  LET response == IF stub.headers # {}
                    THEN [body |-> stub.body, headers |-> stub.headers]
                    ELSE [body |-> stub.body]
      base == [name |-> <<stub.method, " ", stub.path>>,
               method |-> stub.method, path |-> stub.path,
               response |-> response, enabled |-> TRUE]
      withLatency == IF stub.latency_ms # None
                       THEN base @@ [latency_ms |-> stub.latency_ms]
                       ELSE base
  IN  IF stub.status # 200
        THEN withLatency @@ [status_code |-> stub.status]
        ELSE withLatency

\* The payload whose values are kept when they are true, not when they are
\* not None: a latency of 0 is dropped.
MockConfigTruthy(stub) ==
  LET response == IF stub.headers # {}
                    THEN [body |-> stub.body, headers |-> stub.headers]
                    ELSE [body |-> stub.body]
      base == [id |-> "", name |-> <<stub.method, " ", stub.path>>,
               method |-> stub.method, path |-> stub.path,
               response |-> response, enabled |-> TRUE]
      withLatency == IF stub.latency_ms # None /\ stub.latency_ms # 0
                       THEN base @@ [latency_ms |-> stub.latency_ms]
                       ELSE base
  IN  IF stub.status # 200
        THEN withLatency @@ [status_code |-> stub.status]
        ELSE withLatency

\* The mock_config payload: None values are removed from the top level, and
\* response.headers is deleted when there are no headers.
MockConfig(stub) ==
  LET response == IF stub.headers # {}
                    THEN [body |-> stub.body, headers |-> stub.headers]
                    ELSE [body |-> stub.body]
      base == [id |-> "", name |-> <<stub.method, " ", stub.path>>,
               method |-> stub.method, path |-> stub.path,
               response |-> response, enabled |-> TRUE]
      withLatency == IF stub.latency_ms # None
                       THEN base @@ [latency_ms |-> stub.latency_ms]
                       ELSE base
  IN  IF stub.status # 200
        THEN withLatency @@ [status_code |-> stub.status]
        ELSE withLatency

\* stub_response without its test of self.admin_port.
AdminKnownUntested == TRUE

\* if self.admin_port:
AdminKnown == admin_port # None /\ admin_port # 0

\* What a request to the admin API may end with: a response of any status
\* (it is not looked at), or a RequestException.
AdminOutcomes == {"response", "ConnectionError", "Timeout"}

\* A client call of the main caller begins.
ClientBegins(to, c) ==
  /\ MayBegin("main", c.op)
  /\ Begins("main", to)
  /\ call' = c
  /\ reqs' = <<>>
  /\ todo' = <<>>
  /\ result' = NoResult

\* stub_response(...) is called and builds the stub.
StubResponse(a) ==
  /\ Len(added) < MaxStubs
  /\ ClientBegins("sr_append", [op |-> "stub_response", stub |-> ResponseStub(a),
                                outcome |-> "none"])
  /\ added' = Append(added, ResponseStub(a))
  /\ UNCHANGED <<args, builderVars, config, process, port, admin_port, stubs, procVars, readerVars,
                 waitVars, waitOn, ghostVars>>

\* The stub kept locally only when it cannot be registered remotely.
StubAppendUnlessRemote ==
  /\ pc["main"] = "sr_append"
  /\ stubs' = IF AdminKnown THEN stubs ELSE Append(stubs, call.stub)
  /\ IF AdminKnown
       THEN /\ pc' = [pc EXCEPT !["main"] = "sr_post"]
            /\ UNCHANGED <<lastOp, err>>
       ELSE Returns("main", "stub_response")
  /\ UNCHANGED <<args, builderVars, clientVars, config, process, port, admin_port, procVars, readerVars,
                 waitVars, waitOn, ghostVars>>

\* self.stubs.append(stub), then the test of self.admin_port.
StubAppend ==
  /\ pc["main"] = "sr_append"
  /\ stubs' = Append(stubs, call.stub)
  /\ IF AdminKnown
       THEN /\ pc' = [pc EXCEPT !["main"] = "sr_post"]
            /\ UNCHANGED <<lastOp, err>>
       ELSE Returns("main", "stub_response")
  /\ UNCHANGED <<args, builderVars, clientVars, config, process, port, admin_port, procVars, readerVars,
                 waitVars, waitOn, ghostVars>>


\* A registration that sends every stub of the local list.
StubPostAll(outcome) ==
  /\ pc["main"] = "sr_post"
  /\ outcome \in AdminOutcomes
  /\ reqs' = reqs \o [i \in 1..Len(stubs) |->
                        [verb |-> "POST", port |-> admin_port,
                         path |-> "/__mockforge/api/mocks",
                         json |-> MockConfig(stubs[i])]]
  /\ call' = [call EXCEPT !.outcome = outcome]
  /\ Returns("main", "stub_response")
  /\ UNCHANGED <<args, builderVars, config, process, port, admin_port, stubs, procVars, readerVars,
                 waitVars, waitOn, ghostVars, added, todo, result>>

\* The registration without its except clause.
StubPostSurfacing(outcome) ==
  /\ pc["main"] = "sr_post"
  /\ outcome \in AdminOutcomes
  /\ reqs' = Append(reqs, [verb |-> "POST", port |-> admin_port,
                           path |-> "/__mockforge/api/mocks",
                           json |-> MockConfig(call.stub)])
  /\ call' = [call EXCEPT !.outcome = outcome]
  /\ IF outcome = "response"
       THEN Returns("main", "stub_response")
       ELSE Raises("main", "stub_response",
                   [code |-> outcome, cause |-> "None", details |-> <<>>])
  /\ UNCHANGED <<args, builderVars, config, process, port, admin_port, stubs, procVars, readerVars,
                 waitVars, waitOn, ghostVars, added, todo, result>>

\* requests.post(.../__mockforge/api/mocks, json=mock_config, timeout=1.0):
\* a RequestException is passed over.
StubPost(outcome) ==
  /\ pc["main"] = "sr_post"
  /\ outcome \in AdminOutcomes
  /\ reqs' = Append(reqs, [verb |-> "POST", port |-> admin_port,
                           path |-> "/__mockforge/api/mocks",
                           json |-> MockConfig(call.stub)])
  /\ call' = [call EXCEPT !.outcome = outcome]
  /\ Returns("main", "stub_response")
  /\ UNCHANGED <<args, builderVars, config, process, port, admin_port, stubs, procVars, readerVars,
                 waitVars, waitOn, ghostVars, added, todo, result>>

\* The ids of the mocks on the server (the server generates one for each).
MockIds == {"m1", "m2"}

\* The bodies the list request may be answered with: text that is not JSON, a
\* JSON value that is not an object, or an object (mocks: its "mocks" entry,
\* empty also when the object has none).
MockListBodies ==
  {[kind |-> "text", mocks |-> <<>>], [kind |-> "array", mocks |-> <<>>]}
    \cup {[kind |-> "object", mocks |-> m] :
            m \in UNION {[1..n -> MockIds] : n \in 0..MaxMocks}}

\* clear_stubs() is called.
ClearStubs ==
  /\ ClientBegins("cs_clear", [op |-> "clear_stubs", outcome |-> "none",
                               mocks |-> <<>>])
  /\ added' = <<>>
  /\ UNCHANGED <<args, builderVars, config, process, port, admin_port, stubs, procVars, readerVars,
                 waitVars, waitOn, ghostVars>>

\* self.stubs.clear(), then the test of self.admin_port.
ClearClear ==
  /\ pc["main"] = "cs_clear"
  /\ stubs' = <<>>
  /\ IF AdminKnown
       THEN /\ pc' = [pc EXCEPT !["main"] = "cs_get"]
            /\ UNCHANGED <<lastOp, err>>
       ELSE Returns("main", "clear_stubs")
  /\ UNCHANGED <<args, builderVars, clientVars, config, process, port, admin_port, procVars, readerVars,
                 waitVars, waitOn, ghostVars>>

\* requests.get(.../__mockforge/api/mocks) and response.json().get("mocks", []).
\* A RequestException ends the call quietly, and so does a body that is not
\* JSON (requests raises its JSONDecodeError, a RequestException); a JSON
\* value without .get raises AttributeError out of clear_stubs.
ClearGet(outcome, body) ==
  /\ pc["main"] = "cs_get"
  /\ outcome \in AdminOutcomes
  /\ body \in MockListBodies
  /\ reqs' = Append(reqs, [verb |-> "GET", port |-> admin_port,
                           path |-> "/__mockforge/api/mocks"])
  /\ IF outcome # "response" \/ body.kind = "text"
       THEN /\ Returns("main", "clear_stubs")
            /\ call' = [call EXCEPT !.outcome = outcome]
            /\ todo' = <<>>
       ELSE IF body.kind = "array"
         THEN /\ Raises("main", "clear_stubs", AttributeError)
              /\ call' = [call EXCEPT !.outcome = outcome]
              /\ todo' = <<>>
         ELSE /\ call' = [call EXCEPT !.outcome = outcome, !.mocks = body.mocks]
              /\ todo' = body.mocks
              /\ IF body.mocks = <<>>
                   THEN Returns("main", "clear_stubs")
                   ELSE /\ pc' = [pc EXCEPT !["main"] = "cs_del"]
                        /\ UNCHANGED <<lastOp, err>>
  /\ UNCHANGED <<args, builderVars, config, process, port, admin_port, stubs, procVars, readerVars,
                 waitVars, waitOn, ghostVars, added, result>>

\* The deletions with one try around the whole loop: the first failure ends it.
ClearDeleteAborting(outcome) ==
  /\ pc["main"] = "cs_del"
  /\ outcome \in AdminOutcomes
  /\ reqs' = Append(reqs, [verb |-> "DELETE", port |-> admin_port,
                           path |-> "/__mockforge/api/mocks/", id |-> Head(todo),
                           outcome |-> outcome])
  /\ todo' = IF outcome = "response" THEN Tail(todo) ELSE <<>>
  /\ IF todo' = <<>>
       THEN Returns("main", "clear_stubs")
       ELSE UNCHANGED <<pc, lastOp, err>>
  /\ UNCHANGED <<args, builderVars, config, process, port, admin_port, stubs, procVars, readerVars,
                 waitVars, waitOn, ghostVars, added, call, result>>

\* requests.delete(.../__mockforge/api/mocks/{mock['id']}) for the next mock:
\* a RequestException is passed over and the loop goes on.
ClearDelete(outcome) ==
  /\ pc["main"] = "cs_del"
  /\ outcome \in AdminOutcomes
  /\ reqs' = Append(reqs, [verb |-> "DELETE", port |-> admin_port,
                           path |-> "/__mockforge/api/mocks/", id |-> Head(todo),
                           outcome |-> outcome])
  /\ todo' = Tail(todo)
  /\ IF Tail(todo) = <<>>
       THEN Returns("main", "clear_stubs")
       ELSE UNCHANGED <<pc, lastOp, err>>
  /\ UNCHANGED <<args, builderVars, config, process, port, admin_port, stubs, procVars, readerVars,
                 waitVars, waitOn, ghostVars, added, call, result>>

\* The steps of the stub list.
StubSteps ==
  \/ \E a \in StubArgs : StubResponse(a)
  \/ StubAppend
  \/ \E outcome \in AdminOutcomes : StubPost(outcome)
  \/ ClearStubs
  \/ ClearClear
  \/ \E outcome \in AdminOutcomes, body \in MockListBodies : ClearGet(outcome, body)
  \/ \E outcome \in AdminOutcomes : ClearDelete(outcome)

\* ------------------------------------------------------------ verification

\* The empty dict.
EmptyDict == [k \in {} |-> k]

\* VerificationRequest values; "None" stands for None in the optional fields.
Patterns ==
  { [method |-> "None", path |-> "None", query_params |-> {}, headers |-> {},
     body_pattern |-> "None"],
    [method |-> "GET", path |-> "/a", query_params |-> {}, headers |-> {},
     body_pattern |-> "None"] }

\* VerificationCount.exactly(n) and VerificationCount.never()
Exactly(n) == [type |-> "exactly", value |-> n]
Never == [type |-> "never"]

\* The calls made: their operation and arguments.
VerifyCalls ==
  {[op |-> "verify", pattern |-> p, expected |-> e, outcome |-> "none"] :
      p \in Patterns, e \in {Exactly(1), Never}}
    \cup {[op |-> "verify_never", pattern |-> p, outcome |-> "none"] : p \in Patterns}
    \cup {[op |-> "verify_at_least", pattern |-> p, min_count |-> 1,
           outcome |-> "none"] : p \in Patterns}
    \cup {[op |-> "verify_sequence", patterns |-> ps, outcome |-> "none"] :
            ps \in {<<>>} \cup {<<p, q>> : p \in Patterns, q \in Patterns}}
    \cup {[op |-> "count", pattern |-> p, outcome |-> "none"] : p \in Patterns}

\* The dict built from a pattern.
PatternData(p) ==
  [method |-> p.method, path |-> p.path, query_params |-> p.query_params,
   headers |-> p.headers, body_pattern |-> p.body_pattern]

\* Endpoints spelt after the names of the operations.
EndpointByName(c) ==
  CASE c.op = "verify" -> "verify"
    [] c.op = "verify_never" -> "verify_never"
    [] c.op = "verify_at_least" -> "at_least"
    [] c.op = "verify_sequence" -> "sequence"
    [] c.op = "count" -> "count"

\* The endpoint each operation posts to.
Endpoint(c) ==
  CASE c.op = "verify" -> "verify"
    [] c.op = "verify_never" -> "never"
    [] c.op = "verify_at_least" -> "at-least"
    [] c.op = "verify_sequence" -> "sequence"
    [] c.op = "count" -> "count"

\* The JSON data each operation posts.
Data(c) ==
  CASE c.op = "verify" -> [pattern |-> PatternData(c.pattern), expected |-> c.expected]
    [] c.op = "verify_never" -> PatternData(c.pattern)
    [] c.op = "verify_at_least" -> [pattern |-> PatternData(c.pattern), min |-> c.min_count]
    [] c.op = "verify_sequence" ->
         [patterns |-> [i \in 1..Len(c.patterns) |-> PatternData(c.patterns[i])]]
    [] c.op = "count" -> [pattern |-> PatternData(c.pattern)]

\* The JSON objects a 2xx response may carry.
ResponseObjects ==
  { EmptyDict,
    [matched |-> TRUE],
    [count |-> 2],
    [matched |-> TRUE, count |-> 1, expected |-> Exactly(1), matches |-> <<"r1">>],
    [matched |-> FALSE, count |-> 2, expected |-> Never],
    [matched |-> FALSE, count |-> 0, expected |-> Exactly(1), matches |-> <<>>,
     error_message |-> "Expected exactly 1"] }

\* What the POST may end with: a RequestException raised by requests.post, a
\* status that raise_for_status() turns into HTTPError, or a 2xx response
\* whose body is text that is not JSON, a JSON array, or a JSON object.
VerifyOutcomes ==
  {[kind |-> "ConnectionError"], [kind |-> "Timeout"], [kind |-> "HTTPError"],
   [kind |-> "text"], [kind |-> "array"]}
    \cup {[kind |-> "object", data |-> d] : d \in ResponseObjects}

\* The outcomes that end in the except clause: response.json() on text that is
\* not JSON raises requests' JSONDecodeError, a RequestException.
RequestExceptions == {"ConnectionError", "Timeout", "HTTPError", "text"}

\* The fields of VerificationResult, and those without a default.
ResultFields == {"matched", "count", "expected", "matches", "error_message"}
RequiredFields == {"matched", "count", "expected"}

TypeError == [code |-> "TypeError", cause |-> "None", details |-> <<>>]

\* The VerificationResult of the except clause.
FailureResult(c, kind) ==
  [op |-> c.op, matched |-> FALSE, count |-> 0, expected |-> EmptyDict,
   matches |-> <<>>, error_message |-> "Verification API request failed: " \o kind]

\* A client that compares the count with the assertion itself.
SuccessResultCompared(c, d) ==
  [op |-> c.op,
   matched |-> IF "expected" \in DOMAIN c /\ c.expected = Never THEN d.count = 0
               ELSE d.matched,
   count |-> d.count, expected |-> d.expected,
   matches |-> IF "matches" \in DOMAIN d THEN d.matches ELSE <<>>,
   error_message |-> IF "error_message" \in DOMAIN d THEN d.error_message ELSE "None"]

\* VerificationResult(**result_data), with the defaults of the dataclass.
SuccessResult(c, d) ==
  [op |-> c.op, matched |-> d.matched, count |-> d.count, expected |-> d.expected,
   matches |-> IF "matches" \in DOMAIN d THEN d.matches ELSE <<>>,
   error_message |-> IF "error_message" \in DOMAIN d THEN d.error_message ELSE "None"]

\* The names by which MockServer and the module offer the operation.
VerifyOps == {"verify", "verify_never", "verify_at_least", "verify_sequence"}

\* verify, verify_never, verify_at_least, verify_sequence or count is called
\* with self.url().
VerifyCall(c) ==
  /\ c \in VerifyCalls
  /\ ClientBegins("v_post", c)
  /\ UNCHANGED <<args, builderVars, config, process, port, admin_port, stubs, procVars, readerVars,
                 waitVars, waitOn, ghostVars, added>>

\* A request that is sent a second time.
IssueTwice(log, r) == Append(Append(log, r), r)

\* The one request of the call.
Issue(log, r) == Append(log, r)

\* _make_verification_request: the POST and what is made of its outcome.
VerifyPost(o) ==
  /\ pc["main"] = "v_post"
  /\ call.op \in VerifyOps
  /\ o \in VerifyOutcomes
  /\ reqs' = Issue(reqs, [verb |-> "POST", port |-> port,
                          path |-> "/api/verification/" \o Endpoint(call),
                          json |-> Data(call)])
  /\ call' = [call EXCEPT !.outcome = o.kind]
  /\ IF o.kind \in RequestExceptions
       THEN /\ result' = FailureResult(call, o.kind)
            /\ Returns("main", call.op)
       ELSE IF o.kind = "object" /\ RequiredFields \subseteq DOMAIN o.data
                                 /\ DOMAIN o.data \subseteq ResultFields
         THEN /\ result' = SuccessResult(call, o.data)
              /\ Returns("main", call.op)
         ELSE /\ result' = NoResult
              /\ Raises("main", call.op, TypeError)
  /\ UNCHANGED <<args, builderVars, config, process, port, admin_port, stubs, procVars, readerVars,
                 waitVars, waitOn, ghostVars, added, todo>>

\* count: the POST, and result.get("count", 0) or the 0 of the except clause.
CountPost(o) ==
  /\ pc["main"] = "v_post"
  /\ call.op = "count"
  /\ o \in VerifyOutcomes
  /\ reqs' = Issue(reqs, [verb |-> "POST", port |-> port,
                          path |-> "/api/verification/count",
                          json |-> Data(call)])
  /\ call' = [call EXCEPT !.outcome = o.kind]
  /\ IF o.kind \in RequestExceptions
       THEN /\ result' = [op |-> "count", count |-> 0]
            /\ Returns("main", "count")
       ELSE IF o.kind = "object"
         THEN /\ result' = [op |-> "count",
                            count |-> IF "count" \in DOMAIN o.data THEN o.data.count ELSE 0]
              /\ Returns("main", "count")
         ELSE /\ result' = NoResult
              /\ Raises("main", "count", AttributeError)
  /\ UNCHANGED <<args, builderVars, config, process, port, admin_port, stubs, procVars, readerVars,
                 waitVars, waitOn, ghostVars, added, todo>>

\* The steps of the verification calls.
VerifySteps ==
  \/ \E c \in VerifyCalls : VerifyCall(c)
  \/ \E o \in VerifyOutcomes : VerifyPost(o)
  \/ \E o \in VerifyOutcomes : CountPost(o)

\* -------------------------------------------------------- the specifications

\* The steps of start() and of the readiness wait.
StartSteps ==
  \/ StartBegin
  \/ \E exc \in SpawnOutcomes : StartSpawnFails(exc)
  \/ StartSpawns
  \/ \E late \in BOOLEAN : WaitLoop(late)
  \/ WaitCheckPort
  \/ WaitSendHealth
  \/ \E outcome \in HealthOutcomes, late \in BOOLEAN : WaitRecvHealth(outcome, late)

\* The steps of stop(), called by the callers of T.
StopSteps(T) ==
  \/ \E t \in T : StopBegin(t)
  \/ \E t \in T : StopTest(t)
  \/ \E t \in T : StopTerminate(t)
  \/ \E t \in T : StopWait(t)
  \/ \E t \in T : StopWaitExited(t)
  \/ \E t \in T : StopWaitTimeout(t)
  \/ \E t \in T : StopKill(t)
  \/ \E t \in T : StopClear(t)

\* The whole system.
Next ==
  \/ StartSteps
  \/ \E p \in Procs, line \in StdoutLines : ReadStdout(p, line)
  \/ \E p \in Procs : SetHttpPort(p)
  \/ \E p \in Procs : CheckAdminPort(p)
  \/ \E p \in Procs : SetAdminPort(p)
  \/ \E p \in Procs : StdoutEof(p)
  \/ \E p \in Procs, line \in StderrLines : ReadStderr(p, line)
  \/ \E p \in Procs : StderrEof(p)
  \/ \E p \in Procs : ChildExits(p)
  \/ StopSteps(Callers)

Spec == Init /\ [][Next]_vars

\* The system is a product of threads that share self.port, self.admin_port
\* and self.process only; the specifications below each let a part of it run,
\* so that the part is explored in full.


\* ------------------------------------------------------------- StubBuilder

MaxBuilders == 2
MaxBuilds == 2

\* What the builder calls are given.
BuilderMethods == {"get"}
BuilderPaths == {"/a"}
BuilderCodes == {200, 404}
BuilderBodies == {"a"}
BuilderLatencies == {5}
HeaderKeys == {"h"}
HeaderValues == {"v", "w"}
HeaderDicts == {{}, {<<"h", "w">>}}

\* self._body is None
NoBody == "None"

\* d[key] = value on a dict held as a set of <<key, value>> pairs.
DictSet(d, key, value) == {kv \in d : kv[1] # key} \cup {<<key, value>>}

\* d.update(other)
DictUpdate(d, other) ==
  {kv \in d : \A o \in other : o[1] # kv[1]} \cup other

\* What the builder calls leave alone.
BuilderFrame ==
  UNCHANGED <<args, clientVars, config, process, port, admin_port, stubs, procVars,
              readerVars, waitVars, waitOn, ghostVars>>

\* StubBuilder(method, path): the new builder creates its own headers dict.
NewBuilder(method, path) ==
  /\ pc["main"] = "idle"
  /\ Len(heap) < MaxBuilders
  /\ heap' = Append(heap, {})
  /\ builder' = [method |-> Upper(method), path |-> path, status |-> 200,
                 headers |-> Len(heap) + 1, body |-> NoBody, latency_ms |-> None]
  /\ UNCHANGED <<built, pc, lastOp, err>>
  /\ BuilderFrame

\* builder.status(code)
BuilderStatus(code) ==
  /\ pc["main"] = "idle"
  /\ builder # NoBuilder
  /\ builder' = [builder EXCEPT !.status = code]
  /\ UNCHANGED <<heap, built, pc, lastOp, err>>
  /\ BuilderFrame

\* builder.header(key, value): self._headers[key] = value, in place.
BuilderHeader(key, value) ==
  /\ pc["main"] = "idle"
  /\ builder # NoBuilder
  /\ heap' = [heap EXCEPT ![builder.headers] = DictSet(@, key, value)]
  /\ UNCHANGED <<builder, built, pc, lastOp, err>>
  /\ BuilderFrame

\* builder.headers(headers): self._headers.update(headers), in place.
BuilderHeaders(hs) ==
  /\ pc["main"] = "idle"
  /\ builder # NoBuilder
  /\ heap' = [heap EXCEPT ![builder.headers] = DictUpdate(@, hs)]
  /\ UNCHANGED <<builder, built, pc, lastOp, err>>
  /\ BuilderFrame

\* builder.body(body)
BuilderBody(body) ==
  /\ pc["main"] = "idle"
  /\ builder # NoBuilder
  /\ builder' = [builder EXCEPT !.body = body]
  /\ UNCHANGED <<heap, built, pc, lastOp, err>>
  /\ BuilderFrame

\* builder.latency(ms)
BuilderLatency(ms) ==
  /\ pc["main"] = "idle"
  /\ builder # NoBuilder
  /\ builder' = [builder EXCEPT !.latency_ms = ms]
  /\ UNCHANGED <<heap, built, pc, lastOp, err>>
  /\ BuilderFrame

\* raise ValueError("Response body is required")
BodyRequired ==
  [code |-> "ValueError", cause |-> "None", details |-> <<>>]

\* ResponseStub(method=self._method, ..., headers=self._headers, ...): the
\* dataclass keeps the objects it is given.
BuiltStub(b) ==
  [method |-> b.method, path |-> b.path, body |-> b.body, status |-> b.status,
   headers |-> b.headers, latency_ms |-> b.latency_ms]

\* builder.build()
BuilderBuild ==
  /\ pc["main"] = "idle"
  /\ builder # NoBuilder
  /\ IF builder.body = NoBody
       THEN /\ Raises("main", "build", BodyRequired)
            /\ UNCHANGED built
       ELSE /\ Len(built) < MaxBuilds
            /\ built' = Append(built, BuiltStub(builder))
            /\ Returns("main", "build")
  /\ UNCHANGED <<builder, heap>>
  /\ BuilderFrame

\* The calls on StubBuilder objects, one after another.
NextBuilder ==
  \/ \E m \in BuilderMethods, path \in BuilderPaths : NewBuilder(m, path)
  \/ \E code \in BuilderCodes : BuilderStatus(code)
  \/ \E k \in HeaderKeys, v \in HeaderValues : BuilderHeader(k, v)
  \/ \E hs \in HeaderDicts : BuilderHeaders(hs)
  \/ \E body \in BuilderBodies : BuilderBody(body)
  \/ \E ms \in BuilderLatencies : BuilderLatency(ms)
  \/ BuilderBuild

SpecBuilder == Init /\ [][NextBuilder]_vars

\* start() against children that write any line of StdoutLines, stay alive
\* and are not stopped: the readiness wait and the stdout readers.
NextStart ==
  \/ StartSteps
  \/ \E p \in Procs, line \in StdoutLines : ReadStdout(p, line)
  \/ \E p \in Procs : SetHttpPort(p)
  \/ \E p \in Procs : CheckAdminPort(p)
  \/ \E p \in Procs : SetAdminPort(p)

SpecStart == Init /\ [][NextStart]_vars

\* One caller: start() and stop() in sequence, against children that announce
\* an HTTP port or nothing, and that may exit on their own.
NextSeq ==
  \/ StartSteps
  \/ \E p \in Procs : ReadStdout(p, HttpPortLine(<<"8">>))
  \/ \E p \in Procs : SetHttpPort(p)
  \/ \E p \in Procs : CheckAdminPort(p)
  \/ \E p \in Procs : StdoutEof(p)
  \/ \E p \in Procs : ChildExits(p)
  \/ StopSteps({"main"})

SpecSeq == Init /\ [][NextSeq]_vars

\* Two callers: stop() runs concurrently with itself, against silent children
\* that may exit on their own.
NextStop ==
  \/ StartSteps
  \/ \E p \in Procs : ChildExits(p)
  \/ StopSteps(Callers)

SpecStop == Init /\ [][NextStop]_vars

\* The with-statement: __enter__ calls start() on a server that is not inside
\* a with-block.
WithEnter ==
  /\ lastOp["main"] # "start_ok"
  /\ StartBegin

\* __exit__ calls stop(), on the normal exit of the block and on an exception
\* in its body alike; it is not called when __enter__ raised.
WithExit ==
  /\ lastOp["main"] = "start_ok"
  /\ StopBegin("main")

\* One caller that uses the server only through with-statements, against
\* children that announce an HTTP port or nothing and may exit on their own.
NextWith ==
  \/ WithEnter
  \/ \E exc \in SpawnOutcomes : StartSpawnFails(exc)
  \/ StartSpawns
  \/ \E late \in BOOLEAN : WaitLoop(late)
  \/ WaitCheckPort
  \/ WaitSendHealth
  \/ \E outcome \in HealthOutcomes, late \in BOOLEAN : WaitRecvHealth(outcome, late)
  \/ \E p \in Procs : ReadStdout(p, HttpPortLine(<<"8">>))
  \/ \E p \in Procs : SetHttpPort(p)
  \/ \E p \in Procs : CheckAdminPort(p)
  \/ \E p \in Procs : ChildExits(p)
  \/ WithExit
  \/ StopTest("main")
  \/ StopTerminate("main")
  \/ StopWait("main")
  \/ StopWaitExited("main")
  \/ StopWaitTimeout("main")
  \/ StopKill("main")
  \/ StopClear("main")

SpecWith == Init /\ [][NextWith]_vars

\* The stub list of a server whose children announce an admin port or
\* nothing: stub_response and clear_stubs before, while and after start().
NextStubs ==
  \/ StartSteps
  \/ \E p \in Procs : ReadStdout(p, AdminUrlLine(<<"9">>))
  \/ \E p \in Procs : SetAdminPort(p)
  \/ StubSteps

SpecStubs == Init /\ [][NextStubs]_vars

\* The verification calls, which need no started server: they post to
\* self.url() whatever the state of the process.
NextVerify == VerifySteps

SpecVerify == Init /\ [][NextVerify]_vars

\* The client calls of a server whose children announce an admin port or
\* nothing: stub_response and the verification calls, one call of each
\* operation with every outcome.
ClientCalls ==
  {c \in VerifyCalls :
     /\ "pattern" \in DOMAIN c => c.pattern.method = "GET"
     /\ "patterns" \in DOMAIN c => c.patterns = <<>>
     /\ "expected" \in DOMAIN c => c.expected = Never}

NextClient ==
  \/ StartSteps
  \/ \E p \in Procs : ReadStdout(p, AdminUrlLine(<<"9">>))
  \/ \E p \in Procs : SetAdminPort(p)
  \/ \E a \in StubArgs : StubResponse(a)
  \/ StubAppend
  \/ \E outcome \in AdminOutcomes : StubPost(outcome)
  \/ \E c \in ClientCalls : VerifyCall(c)
  \/ \E o \in VerifyOutcomes : VerifyPost(o)
  \/ \E o \in VerifyOutcomes : CountPost(o)

SpecClient == Init /\ [][NextClient]_vars

\* start(), once or again, of a server of any configuration of LaunchConfigs,
\* against children that announce an HTTP port or nothing.
NextLaunch ==
  \/ StartSteps
  \/ \E p \in Procs : ReadStdout(p, HttpPortLine(<<"8">>))
  \/ \E p \in Procs : SetHttpPort(p)
  \/ \E p \in Procs : CheckAdminPort(p)

SpecLaunch == InitLaunch /\ [][NextLaunch]_vars

\* The first start() of a server.
FirstStart ==
  /\ ~everStarted
  /\ StartBegin

\* The two readers beside the start() of a server started once: a child that
\* announces an HTTP port on stdout or nothing, writes any line of StderrLines
\* to stderr, and may exit, on its own or by the signal of a stop().
NextOneStart ==
  \/ FirstStart
  \/ \E exc \in SpawnOutcomes : StartSpawnFails(exc)
  \/ StartSpawns
  \/ \E late \in BOOLEAN : WaitLoop(late)
  \/ WaitCheckPort
  \/ WaitSendHealth
  \/ \E outcome \in HealthOutcomes, late \in BOOLEAN : WaitRecvHealth(outcome, late)
  \/ \E p \in Procs : ReadStdout(p, HttpPortLine(<<"8">>))
  \/ \E p \in Procs : SetHttpPort(p)
  \/ \E p \in Procs : CheckAdminPort(p)
  \/ \E p \in Procs : StdoutEof(p)
  \/ \E p \in Procs, line \in StderrLines : ReadStderr(p, line)
  \/ \E p \in Procs : StderrEof(p)
  \/ \E p \in Procs : ChildExits(p)

SpecOneStart == Init /\ [][NextOneStart]_vars

\* The stdout reader beside the start() of a server started once, with a
\* child that writes any lines of StdoutLines and stays alive.
NextOneChild ==
  \/ FirstStart
  \/ \E exc \in SpawnOutcomes : StartSpawnFails(exc)
  \/ StartSpawns
  \/ \E late \in BOOLEAN : WaitLoop(late)
  \/ WaitCheckPort
  \/ WaitSendHealth
  \/ \E outcome \in HealthOutcomes, late \in BOOLEAN : WaitRecvHealth(outcome, late)
  \/ \E p \in Procs, line \in StdoutLines : ReadStdout(p, line)
  \/ \E p \in Procs : SetHttpPort(p)
  \/ \E p \in Procs : CheckAdminPort(p)
  \/ \E p \in Procs : SetAdminPort(p)

SpecOneChild == Init /\ [][NextOneChild]_vars

\* Where the caller stands inside _wait_for_server.
WaitPcs == {"w_loop", "w_chk", "w_send", "w_recv"}

\* A step of the caller inside _wait_for_server.
WaitStep ==
  \/ \E late \in BOOLEAN : WaitLoop(late)
  \/ WaitCheckPort
  \/ WaitSendHealth
  \/ \E outcome \in HealthOutcomes, late \in BOOLEAN : WaitRecvHealth(outcome, late)


\* stub_response on a server that has been started more than once and holds
\* no stub.
RestartCall ==
  /\ NumSpawned > 1
  /\ stubs = <<>>
  /\ \E a \in StubArgs : a.method = "get" /\ StubResponse(a)

\* One caller that starts, stops and starts the server again through
\* with-statements and then adds a stub, against children that write the
\* lines of RestartLines or nothing and may exit once signalled.
NextRestart ==
  \/ WithEnter
  \/ \E exc \in SpawnOutcomes : StartSpawnFails(exc)
  \/ StartSpawns
  \/ WaitStep
  \/ \E p \in Procs, line \in RestartLines : ReadStdout(p, line)
  \/ \E p \in Procs : SetHttpPort(p)
  \/ \E p \in Procs : CheckAdminPort(p)
  \/ \E p \in Procs : SetAdminPort(p)
  \/ \E p \in Procs : sigterm[p] > 0 /\ ChildExits(p)
  \/ WithExit
  \/ StopTest("main")
  \/ StopTerminate("main")
  \/ StopWait("main")
  \/ StopWaitExited("main")
  \/ StopWaitTimeout("main")
  \/ StopKill("main")
  \/ StopClear("main")
  \/ RestartCall
  \/ StubAppend
  \/ \E outcome \in AdminOutcomes : StubPost(outcome)

SpecRestart == Init /\ [][NextRestart]_vars

\* The caller's thread runs: its sleeps end and its requests have a timeout.
\* The stdout readers run too.  Nothing makes the child write, the health
\* endpoint answer 200 or the deadline pass.
WaitFairness ==
  /\ WF_vars(WaitStep)
  /\ \A p \in Procs : WF_vars(SetHttpPort(p)) /\ WF_vars(CheckAdminPort(p))

\* The start() of a server started once, with a child that announces an HTTP
\* port or nothing and stays alive.
NextReady ==
  \/ FirstStart
  \/ \E exc \in SpawnOutcomes : StartSpawnFails(exc)
  \/ StartSpawns
  \/ WaitStep
  \/ \E p \in Procs : ReadStdout(p, HttpPortLine(<<"8">>))
  \/ \E p \in Procs : SetHttpPort(p)
  \/ \E p \in Procs : CheckAdminPort(p)

FairWait == Init /\ [][NextReady]_vars /\ WaitFairness

\* Wall-clock time reaches start_time + timeout, at whatever point of the
\* wait the caller is: also between the loop test and the request.
DeadlinePasses ==
  /\ pc["main"] \in WaitPcs
  /\ ~expired
  /\ expired' = TRUE
  /\ UNCHANGED <<args, builderVars, clientVars, config, process, port, admin_port, stubs, procVars, readerVars,
                 pc, attempts, hport, waitOn, lastOp, err, ghostVars>>

\* The same start(), with a child that may also exit, and a clock that runs.
NextDeadline ==
  \/ NextReady
  \/ DeadlinePasses
  \/ \E p \in Procs : ChildExits(p)
  \/ \E p \in Procs : StdoutEof(p)

\* The caller runs and time passes; the child and the health endpoint are free.
FairDeadline == Init /\ [][NextDeadline]_vars /\ WF_vars(WaitStep) /\ WF_vars(DeadlinePasses)

\* The reader threads are daemon threads of their own, which the interpreter
\* schedules whatever the caller and the other reader do: a reader that can
\* take a step of its own takes it.  Nothing makes the child write or exit,
\* and nothing makes the caller go on.
ReaderFairness ==
  \A p \in Procs :
    /\ WF_vars(SetHttpPort(p))
    /\ WF_vars(CheckAdminPort(p))
    /\ WF_vars(StdoutEof(p))
    /\ WF_vars(StderrEof(p))

\* The same with a child that writes errors only to stderr.
NextOneStartErrors ==
  \/ FirstStart
  \/ \E exc \in SpawnOutcomes : StartSpawnFails(exc)
  \/ StartSpawns
  \/ \E late \in BOOLEAN : WaitLoop(late)
  \/ WaitCheckPort
  \/ WaitSendHealth
  \/ \E outcome \in HealthOutcomes, late \in BOOLEAN : WaitRecvHealth(outcome, late)
  \/ \E p \in Procs : ReadStdout(p, HttpPortLine(<<"8">>))
  \/ \E p \in Procs : SetHttpPort(p)
  \/ \E p \in Procs : CheckAdminPort(p)
  \/ \E p \in Procs : StdoutEof(p)
  \/ \E p \in Procs : ReadStderr(p, <<"error", ":", "bind failed", "\n">>)
  \/ \E p \in Procs : StderrEof(p)
  \/ \E p \in Procs : ChildExits(p)

FairReaders == Init /\ [][NextOneStartErrors]_vars /\ ReaderFairness

\* Stubs of every shape: each status, headers and latency_ms, default or not,
\* in every combination; a latency of 0 is a latency that is set.
WideStubArgs ==
  [method : {"get"}, path : {"/a"}, body : {"a"}, status : {200, 404},
   headers : {{}, {<<"h", "v">>}}, latency_ms : {None, 0, 5}]

\* stub_response with a stub of any shape, on a server that holds no stub.
PayloadCall(a) ==
  /\ a \in WideStubArgs
  /\ stubs = <<>>
  /\ StubResponse(a)

\* The registration payloads of a server whose children announce an admin
\* port or nothing: one stub at a time, cleared before the next.
NextPayload ==
  \/ StartSteps
  \/ \E p \in Procs : ReadStdout(p, AdminUrlLine(<<"9">>))
  \/ \E p \in Procs : SetAdminPort(p)
  \/ \E a \in WideStubArgs : PayloadCall(a)
  \/ StubAppend
  \/ \E outcome \in AdminOutcomes : StubPost(outcome)
  \/ ClearStubs
  \/ ClearClear
  \/ \E outcome \in AdminOutcomes, body \in MockListBodies : ClearGet(outcome, body)
  \/ \E outcome \in AdminOutcomes : ClearDelete(outcome)

SpecPayload == Init /\ [][NextPayload]_vars

\* ------------------------------------------------------------------ claims

\* start() has just raised from the readiness wait.
WaitRaised ==
  /\ pc["main"] = "idle"
  /\ lastOp["main"] = "start_raised"
  /\ child # None

\* The HTTP port the stdout of child p announces (0: none).
Announced(p) ==
  LET m == HttpMatch(stdout_buffer[p]) IN IF m = <<>> THEN 0 ELSE ParseInt(m)

\* C1: with configured port 0, when start() returns, get_port() is positive
\* and a GET /health to exactly that port has already answered 200.
C1_PortHealthCheckedOnReturn ==
  [][(config.port = 0 /\ pc["main"] \in WaitPcs /\ lastOp'["main"] = "start_ok")
       => (port' > 0 /\ port' \in healthOk')]_vars

\* C2: with configured port 0, when no child ever announces an HTTP port,
\* start() fails with PORT_DETECTION_FAILED, never HEALTH_CHECK_TIMEOUT,
\* whatever the timing of the sleeps.
C2_SilentChildRaisesPortDetectionFailed ==
  (config.port = 0 /\ WaitRaised /\ \A p \in Procs : HttpMatch(stdout_buffer[p]) = <<>>)
    => err["main"].code = "PORT_DETECTION_FAILED"

C4_HealthCheckTimeoutOnlyWithKnownPort ==
  err["main"].code = "HEALTH_CHECK_TIMEOUT"
    => (err["main"].details.port > 0 /\ err["main"].details.port \in probes)

\* C5: after start() has raised, is_running() is false and the child that
\* start() launched is not alive.
C5_FailedStartLeavesNothingRunning ==
  (pc["main"] = "idle" /\ lastOp["main"] = "start_raised")
    => (~IsRunning /\ (child # None => pstate[child] # "alive"))

\* C6: when Popen raises, start() raises CLI_NOT_FOUND exactly for
\* FileNotFoundError and SERVER_START_FAILED for any other exception, with the
\* exception as cause; no reader is started, nothing is polled, and the
\* process handle and the ports are left as they were.
C6_SpawnFailure ==
  [][(pc["main"] = "spawn" /\ pc'["main"] = "idle")
       => /\ lastOp'["main"] = "start_raised"
          /\ err'["main"].cause \in SpawnOutcomes \ {"ok"}
          /\ err'["main"].code = "CLI_NOT_FOUND" <=> err'["main"].cause = "FileNotFoundError"
          /\ err'["main"].code = "SERVER_START_FAILED" <=> err'["main"].cause # "FileNotFoundError"
          /\ probes' = {}
          /\ attempts' = 0
          /\ UNCHANGED <<process, port, admin_port, pstate, rout, rerr>>]_vars

\* start() has raised SERVER_START_FAILED on a server that had announced its
\* port in an earlier start.
C6_Witness ==
  /\ pc["main"] = "idle"
  /\ lastOp["main"] = "start_raised"
  /\ err["main"].code = "SERVER_START_FAILED"
  /\ child = None
  /\ port > 0
  /\ process # None

\* C7: on a server that start() was never called on, stop() returns at once
\* without raising, and no step sends a signal or changes the process handle,
\* the ports or the stubs.
C7_StopNeverStarted ==
  [][~everStarted
       => /\ \A t \in Callers :
               pc[t] = "s_if" => (pc'[t] = "s_if" \/ (pc'[t] = "idle" /\ lastOp'[t] = "stop_ok"))
          /\ \A t \in Callers : err'[t] = NoError
          /\ UNCHANGED <<process, port, admin_port, stubs, pstate, sigterm, sigkill>>]_vars

\* stop() has returned on a server that was never started.
C7_Witness == ~everStarted /\ pc["other"] = "idle" /\ lastOp["other"] = "stop_ok"

\* C8: called in sequence, stop() never raises; every return of stop() leaves
\* the handle released; a stop() that finds no handle signals nothing and
\* changes nothing; and a child that has exited is not signalled.
C8_SequentialStopIdempotent ==
  /\ [](lastOp["main"] # "stop_raised")
  /\ [][(pc["main"] \in StopPcs /\ pc'["main"] = "idle") => process' = None]_vars
  /\ [][(pc["main"] = "s_if" /\ process = None /\ pc'["main"] # "s_if")
          => /\ pc'["main"] = "idle"
             /\ lastOp'["main"] = "stop_ok"
             /\ UNCHANGED <<process, port, admin_port, stubs, procVars, readerVars>>]_vars
  /\ [][(pc["main"] \in StopPcs /\ process # None /\ pstate[process] = "exited")
          => UNCHANGED <<sigterm, sigkill>>]_vars

\* A second stop() is under way on a server whose child a first stop() ended.
C8_Witness ==
  /\ pc["main"] = "s_if"
  /\ process = None
  /\ child # None
  /\ sigterm[child] > 0

\* C9: no interleaving of concurrent stop() calls makes one of them raise.
C9_ConcurrentStopNeverRaises == \A t \in Callers : lastOp[t] # "stop_raised"

\* C10: is_running() is true after start() has returned while the child it
\* spawned is alive, false after stop() has returned, and false on a server
\* never started.
C10_IsRunning ==
  /\ (pc["main"] = "idle" /\ lastOp["main"] = "start_ok" /\ pstate[child] = "alive") => IsRunning
  /\ (pc["main"] = "idle" /\ lastOp["main"] = "stop_ok") => ~IsRunning
  /\ ~everStarted => ~IsRunning

\* start() has returned and the server is running.
C10_Witness == pc["main"] = "idle" /\ lastOp["main"] = "start_ok" /\ IsRunning

\* The with-statement has been left: __exit__ has returned, or __enter__ raised.
WithLeft ==
  /\ pc["main"] = "idle"
  /\ lastOp["main"] \in {"stop_ok", "stop_raised", "start_raised"}

\* C11: inside the with-block the server is running as long as its child
\* lives, and once the with-statement has been left by any path, is_running()
\* is false and no child process is alive.
C11_WithReleases ==
  /\ (pc["main"] = "idle" /\ lastOp["main"] = "start_ok" /\ pstate[child] = "alive")
       => IsRunning
  /\ WithLeft => (~IsRunning /\ \A p \in Procs : pstate[p] # "alive")

\* C12: whenever no append or clear is under way, the local list holds
\* exactly the stubs passed to stub_response since the last clear_stubs, in
\* call order, whatever the remote calls ended with.
C12_LocalListIsSourceOfTruth ==
  pc["main"] \notin {"sr_append", "cs_clear"} => stubs = added

\* Two different stubs are held in call order after a registration that timed out.
C12_Witness ==
  /\ pc["main"] = "idle"
  /\ Len(stubs) = 2
  /\ stubs[1] # stubs[2]
  /\ call.op = "stub_response"
  /\ call.outcome = "Timeout"

\* C13: stub_response never raises; it goes on to the registration exactly
\* when the admin port is known at its test, having sent nothing before; a
\* call that skips the registration has sent nothing, and a call that makes
\* it has sent exactly one POST to the admin mocks endpoint on the admin port.
C13_OneRegistrationIffAdminKnown ==
  /\ [](lastOp["main"] # "stub_response_raised")
  /\ [](call.op = "stub_response" =>
          /\ Len(reqs) <= 1
          /\ reqs # <<>> => admin_port # None)
  /\ [][(pc["main"] = "sr_append" /\ pc'["main"] # "sr_append")
          => /\ reqs' = <<>>
             /\ admin_port # None <=> pc'["main"] = "sr_post"
             /\ admin_port = None <=> pc'["main"] = "idle"]_vars
  /\ [][(pc["main"] = "sr_post" /\ pc'["main"] # "sr_post")
          => /\ pc'["main"] = "idle"
             /\ Len(reqs') = 1
             /\ reqs'[1].verb = "POST"
             /\ reqs'[1].path = "/__mockforge/api/mocks"
             /\ reqs'[1].port = admin_port]_vars

\* A second stub has been added with one registration, after a first.
C13_Witness ==
  /\ pc["main"] = "idle"
  /\ lastOp["main"] = "stub_response_ok"
  /\ Len(stubs) = 2
  /\ Len(reqs) = 1

\* C14: when the registration request of stub_response fails, the call
\* returns normally and the stub is the last entry of the local list.
C14_RegistrationFailureNotSurfaced ==
  (call.op = "stub_response" /\ call.outcome \in {"ConnectionError", "Timeout"})
    => /\ lastOp["main"] # "stub_response_raised"
       /\ lastOp["main"] = "stub_response_ok" => err["main"] = NoError
       /\ stubs # <<>>
       /\ stubs[Len(stubs)] = call.stub

\* stub_response has returned after a connection error of its registration.
C14_Witness ==
  /\ pc["main"] = "idle"
  /\ lastOp["main"] = "stub_response_ok"
  /\ call.op = "stub_response"
  /\ call.outcome = "ConnectionError"

\* C15: clear_stubs never raises, and once it is past the clearing of the
\* list the local list is empty until the next stub_response.
C15_ClearAlwaysReturns ==
  /\ lastOp["main"] # "clear_stubs_raised"
  /\ (call.op = "clear_stubs" /\ pc["main"] # "cs_clear") => stubs = <<>>

C17_VerifyNeverRaises ==
  \A op \in VerifyOps : lastOp["main"] # op \o "_raised"

\* C18: the result verify returns on a transport failure has matched false,
\* count 0, no matches, an error message, and the expected assertion of the call.
C18_FailureResultKeepsExpected ==
  (pc["main"] = "idle" /\ call.op = "verify" /\ call.outcome \in RequestExceptions)
    => /\ result.matched = FALSE
       /\ result.count = 0
       /\ result.matches = <<>>
       /\ result.error_message # "None"
       /\ result.expected = call.expected

\* C19: count never raises; it returns 0 when the request fails or the body is
\* malformed, and the count field of the response object (0 without one)
\* otherwise.
C19_CountNeverRaises ==
  /\ lastOp["main"] # "count_raised"
  /\ (pc["main"] = "idle" /\ call.op = "count"
        /\ call.outcome \in RequestExceptions \cup {"array"})
       => result = [op |-> "count", count |-> 0]

\* C20: every verification call has sent nothing before its request and
\* exactly one request when it ends, whatever the outcome and whatever was
\* returned before, and a stub_response sends at most one request.
C20_NoRetryNoCache ==
  /\ [](pc["main"] = "v_post" => reqs = <<>>)
  /\ [][(pc["main"] = "v_post" /\ pc'["main"] # "v_post")
          => /\ pc'["main"] = "idle"
             /\ Len(reqs') = 1
             /\ reqs'[1].json = Data(call)]_vars
  /\ [](call.op = "stub_response" => Len(reqs) <= 1)

\* A verification call has ended with its one request after a timeout, on a
\* server that holds a stub.
C20_Witness ==
  /\ pc["main"] = "idle"
  /\ call.op = "verify"
  /\ call.outcome = "Timeout"
  /\ Len(reqs) = 1
  /\ stubs # <<>>
  /\ admin_port # None

\* C21: verify posts the expected value it was given, and when the response
\* is an object with the fields of a result, the VerificationResult returned
\* has the matched, count, expected and matches of that object, whatever a
\* comparison of the count with the assertion would say.
C21_AssertionPassedThrough ==
  /\ [](call.op = "verify" /\ reqs # <<>>
          => reqs[Len(reqs)].json.expected = call.expected)
  /\ [][\A o \in VerifyOutcomes :
          (call.op = "verify" /\ VerifyPost(o) /\ o.kind = "object"
             /\ lastOp'["main"] = "verify_ok")
            => /\ result'.matched = o.data.matched
               /\ result'.count = o.data.count
               /\ result'.expected = o.data.expected
               /\ "matches" \in DOMAIN o.data => result'.matches = o.data.matches]_vars

\* verify with never() has returned the server's answer: matched, with a
\* count of 1 and the server's own expected.
C21_Witness ==
  /\ pc["main"] = "idle"
  /\ lastOp["main"] = "verify_ok"
  /\ call.op = "verify"
  /\ call.expected = Never
  /\ reqs[1].json.expected = Never
  /\ result.matched
  /\ result.count = 1
  /\ result.expected = Exactly(1)
  /\ result.matches = <<"r1">>

\* C23: each verification operation posts to its own endpoint on the HTTP
\* port, not the admin port, with its own payload: verify the pattern and
\* expected, verify_never the pattern alone, verify_at_least the pattern and
\* min, verify_sequence the patterns in the order given, count the pattern.
C23_EndpointsAndPayloads ==
  (call.op \in VerifyOps \cup {"count"} /\ reqs # <<>>) =>
    LET r == reqs[Len(reqs)] IN
      /\ r.verb = "POST"
      /\ r.port = port
      /\ r.port # admin_port
      /\ call.op = "verify" =>
           /\ r.path = "/api/verification/verify"
           /\ r.json = [pattern |-> call.pattern, expected |-> call.expected]
      /\ call.op = "verify_never" =>
           /\ r.path = "/api/verification/never"
           /\ r.json = call.pattern
      /\ call.op = "verify_at_least" =>
           /\ r.path = "/api/verification/at-least"
           /\ r.json = [pattern |-> call.pattern, min |-> call.min_count]
      /\ call.op = "verify_sequence" =>
           /\ r.path = "/api/verification/sequence"
           /\ DOMAIN r.json = {"patterns"}
           /\ r.json.patterns = call.patterns
      /\ call.op = "count" =>
           /\ r.path = "/api/verification/count"
           /\ r.json = [pattern |-> call.pattern]

\* verify_sequence has posted two different patterns, and verify_at_least
\* its pattern and min.
C23_Witness ==
  /\ pc["main"] = "idle"
  /\ call.op = "verify_sequence"
  /\ Len(call.patterns) = 2
  /\ call.patterns[1].method = "GET"
  /\ call.patterns[2].method = "None"
  /\ Len(reqs) = 1
  /\ reqs[1].json.patterns[1].method = "GET"
  /\ reqs[1].json.patterns[2].method = "None"

\* C22: the argument list handed to Popen is the serve subcommand, then
\* --config and the path exactly when a config file is set, then --spec and
\* the path exactly when an API spec is set, then --http-port and the
\* requested port (0 when none is requested), and last --admin --admin-port 0.
C22_LaunchArguments ==
  pc["main"] = "spawn" =>
    args = <<"mockforge", "serve">>
             \o (IF config.config_file # "None"
                   THEN <<"--config", config.config_file>> ELSE <<>>)
             \o (IF config.openapi_spec # "None"
                   THEN <<"--spec", config.openapi_spec>> ELSE <<>>)
             \o <<"--http-port", Str(config.port)>>
             \o <<"--admin", "--admin-port", "0">>

\* C24: with a requested port outside 0..65535 no process is ever spawned,
\* and every start() has ended by raising INVALID_CONFIG.
C24_InvalidConfigBeforeSpawn ==
  config.port \notin 0..65535 =>
    /\ NumSpawned = 0
    /\ (everStarted /\ pc["main"] = "idle") =>
         /\ lastOp["main"] = "start_raised"
         /\ err["main"].code = "INVALID_CONFIG"

\* C25: in a server started once, when self.port holds a positive value no
\* step changes it and no reader is about to write it, and likewise
\* self.admin_port: each is written at most once.
C25_PortsWrittenOnce ==
  /\ [][/\ port > 0 => port' = port
        /\ admin_port > 0 => admin_port' = admin_port]_vars
  /\ [](port > 0 => \A p \in Procs : rout[p] # "set_http")
  /\ [](admin_port > 0 => \A p \in Procs : rout[p] # "set_admin")

\* The child announced port 8 and then another HTTP port: the second line has
\* been processed and the port is still 8.
C25_Witness ==
  /\ child # None
  /\ stdout_buffer[child] = <<HttpPortLine(<<"8">>), HttpUrlLine(<<"7", "0", "0", "0", "0">>)>>
  /\ rout[child] = "read"
  /\ port = 8

\* C26: a stop() that holds a process requests termination first (a live
\* child gets its SIGTERM), then waits; it goes on to the force-kill only
\* from the wait and only when the child is still alive as the grace period
\* ends; a SIGKILL goes only to a live child that got a SIGTERM before; a
\* child that exited in time is not killed; and stop() returns with the
\* handle released.
C26_StopOrder ==
  /\ [][(pc["main"] = "s_term" /\ pc'["main"] # "s_term")
          => /\ pc'["main"] = "s_wait"
             /\ pstate[process] = "alive" => sigterm'[process] = sigterm[process] + 1
             /\ sigkill' = sigkill]_vars
  /\ [][(pc["main"] = "s_wait" /\ pc'["main"] # "s_wait")
          => pc'["main"] = "s_waiting" /\ UNCHANGED <<sigterm, sigkill>>]_vars
  /\ [][(pc["main"] = "s_waiting" /\ pc'["main"] # "s_waiting")
          => /\ UNCHANGED <<sigterm, sigkill>>
             /\ pc'["main"] = IF pstate[process] = "alive" THEN "s_kill" ELSE "s_clear"]_vars
  /\ [][\A p \in Procs :
          sigkill'[p] # sigkill[p]
            => /\ pc["main"] = "s_kill"
               /\ p = process
               /\ pstate[p] = "alive"
               /\ sigterm[p] > 0
               /\ pstate'[p] = "exited"]_vars
  /\ [][(pc["main"] \in StopPcs /\ pc'["main"] = "idle")
          => /\ lastOp'["main"] = "stop_ok"
             /\ process' = None]_vars

\* stop() has returned after a SIGTERM that the child ignored for the grace
\* period and the SIGKILL that followed.
C26_Witness ==
  /\ pc["main"] = "idle"
  /\ lastOp["main"] = "stop_ok"
  /\ process = None
  /\ child # None
  /\ sigterm[child] = 1
  /\ sigkill[child] = 1
  /\ pstate[child] = "exited"

\* C27 as stated: the registration payload carries no id field.
C27_IdOmitted ==
  \A i \in 1..Len(reqs) :
    (call.op = "stub_response" /\ reqs[i].verb = "POST") => "id" \notin DOMAIN reqs[i].json

\* C27: the registration payload carries the id field, and it is the empty
\* string.
C27_EmptyIdSent ==
  \A i \in 1..Len(reqs) :
    (call.op = "stub_response" /\ reqs[i].verb = "POST")
      => "id" \in DOMAIN reqs[i].json /\ reqs[i].json.id = ""

\* A stub has been registered: the POST was answered.
C27_Witness ==
  /\ pc["main"] = "idle"
  /\ call.op = "stub_response"
  /\ call.outcome = "response"
  /\ Len(reqs) = 1
  /\ reqs[1].verb = "POST"
  /\ reqs[1].json.id = ""

\* C28: the registration payload of every stub has response.headers exactly
\* when the stub has a header, latency_ms exactly when the stub's latency is
\* not None, status_code exactly when the status is not 200, each with the
\* stub's value, and always method, path, response.body and enabled = true.
C28_PayloadFields ==
  (call.op = "stub_response" /\ reqs # <<>>) =>
    LET j == reqs[1].json
        s == call.stub
    IN  /\ {"method", "path", "response", "enabled"} \subseteq DOMAIN j
        /\ j.method = s.method
        /\ j.path = s.path
        /\ j.enabled = TRUE
        /\ "body" \in DOMAIN j.response
        /\ j.response.body = s.body
        /\ "headers" \in DOMAIN j.response <=> s.headers # {}
        /\ "headers" \in DOMAIN j.response => j.response.headers = s.headers
        /\ "latency_ms" \in DOMAIN j <=> s.latency_ms # None
        /\ "latency_ms" \in DOMAIN j => j.latency_ms = s.latency_ms
        /\ "status_code" \in DOMAIN j <=> s.status # 200
        /\ "status_code" \in DOMAIN j => j.status_code = s.status

\* A stub with status 200, a header and a latency of 0 has been posted: the
\* payload has response.headers and latency_ms and no status_code.
C28_Witness ==
  /\ call.op = "stub_response"
  /\ Len(reqs) = 1
  /\ call.stub.status = 200
  /\ call.stub.latency_ms = 0
  /\ call.stub.headers # {}
  /\ DOMAIN reqs[1].json =
       {"id", "name", "method", "path", "response", "enabled", "latency_ms"}
  /\ DOMAIN reqs[1].json.response = {"body", "headers"}

\* C29: a step that reads a line from stderr changes neither self.port nor
\* self.admin_port nor the stdout reader; the admin port stays unknown when
\* only stderr carries an admin announcement; and self.port leaves its
\* configured value only for a port announced on stdout.
C29_StderrNeverParsed ==
  /\ [][stderr_buffer' # stderr_buffer
          => UNCHANGED <<port, admin_port, rout, stdout_buffer>>]_vars
  /\ [](admin_port = None)
  /\ [](port # config.port
          => \E p \in Procs : /\ HttpMatch(stdout_buffer[p]) # <<>>
                              /\ port = ParseInt(HttpMatch(stdout_buffer[p])))

\* start() has failed with PORT_DETECTION_FAILED although the child wrote an
\* HTTP port announcement, to stderr.
C29_Witness ==
  /\ pc["main"] = "idle"
  /\ lastOp["main"] = "start_raised"
  /\ err["main"].code = "PORT_DETECTION_FAILED"
  /\ child # None
  /\ stderr_buffer[child] = <<HttpPortLine(<<"8">>)>>
  /\ port = 0
  /\ admin_port = None

\* C30: a reader that has an announcement to store stores it, and the readers
\* of a child that has exited both end, whatever the other reader and the
\* caller do - also when the caller never leaves its readiness wait and the
\* other stream never has data.
C30_ReadersIndependent ==
  /\ \A p \in Procs : (rout[p] = "set_http") ~> (port > 0 /\ rout[p] # "set_http")
  /\ \A p \in Procs : (pstate[p] = "exited") ~> (rout[p] = "done" /\ rerr[p] = "done")

\* start() has returned while both readers of its child are still reading.
C30_Witness ==
  /\ pc["main"] = "idle"
  /\ lastOp["main"] = "start_ok"
  /\ child # None
  /\ pstate[child] = "alive"
  /\ rout[child] = "read"
  /\ rerr[child] = "read"

\* The deadline has passed, or the health check of self.port has been
\* answered, and not with 200.
C31_PremiseFailed ==
  \/ expired
  \/ pc["main"] = "w_loop" /\ port \in probes

\* start() has returned with get_port() the port its child announced, after a
\* health check of that port answered 200.
C31_Ready ==
  /\ pc["main"] = "idle"
  /\ lastOp["main"] = "start_ok"
  /\ port = Announced(child)
  /\ port \in healthOk

C32_WaitEnds ==
  /\ (pc["main"] \in WaitPcs) ~> (pc["main"] = "idle")
  /\ [][(pc["main"] \in WaitPcs /\ pc'["main"] = "idle")
          => \/ lastOp'["main"] = "start_ok"
             \/ /\ lastOp'["main"] = "start_raised"
                /\ err'["main"].code \in {"PORT_DETECTION_FAILED", "HEALTH_CHECK_TIMEOUT"}]_vars

\* C32 as stated: the wait ends as above, and once the deadline has passed
\* no health check is started.
C32_NoCheckAfterDeadline ==
  /\ C32_WaitEnds
  /\ [][expired => ~(pc["main"] = "w_send" /\ pc'["main"] = "w_recv")]_vars

\* C32: the wait ends as above, and once the loop test finds the deadline
\* passed the wait raises HEALTH_CHECK_TIMEOUT without another health check;
\* a health check is started after the deadline only when the loop test
\* before it still passed.
C32_NoCheckAfterLoopTest ==
  /\ C32_WaitEnds
  /\ [][(expired /\ pc["main"] = "w_loop" /\ pc'["main"] # "w_loop")
          => /\ pc'["main"] = "idle"
             /\ lastOp'["main"] = "start_raised"
             /\ err'["main"].code = "HEALTH_CHECK_TIMEOUT"
             /\ probes' = probes]_vars

\* start() has raised HEALTH_CHECK_TIMEOUT against a child that exited early,
\* after a health check of the stored port.
C32_Witness ==
  /\ pc["main"] = "idle"
  /\ lastOp["main"] = "start_raised"
  /\ err["main"].code = "HEALTH_CHECK_TIMEOUT"
  /\ child # None
  /\ pstate[child] = "exited"
  /\ probes # {}

\* C33: every value stored as the discovered HTTP port or admin port lies in
\* 1..65535, whatever digits the announcement of the child carries.
C33_StoredPortsAreUint16 ==
  /\ port # config.port => port \in 1..65535
  /\ admin_port # None => admin_port \in 1..65535

\* C35: no health check is addressed to port 0: a GET /health is prepared and
\* in flight only while the HTTP port is positive, and a wait that reaches the
\* test of self.port with the port still 0 has used up its attempts and raises
\* PORT_DETECTION_FAILED without a request.
C35_NoHealthCheckToPortZero ==
  /\ [](0 \notin probes)
  /\ [](pc["main"] = "w_send" => port > 0)
  /\ [](pc["main"] = "w_recv" => hport > 0)
  /\ [][(pc["main"] = "w_chk" /\ port = 0 /\ pc'["main"] # "w_chk")
          => /\ attempts = MaxPortDetectionAttempts
             /\ lastOp'["main"] = "start_raised"
             /\ err'["main"].code = "PORT_DETECTION_FAILED"
             /\ probes' = probes]_vars

\* The attempts of a start() ran out with no port: it raised
\* PORT_DETECTION_FAILED and no health check was ever sent.
C35_Witness ==
  /\ WaitRaised
  /\ err["main"].code = "PORT_DETECTION_FAILED"
  /\ port = 0
  /\ probes = {}

\* C36: with a non-zero configured port the HTTP port stays the configured
\* value through announcements, stop() and restarts, the wait never sleeps
\* for port detection, and start() never raises PORT_DETECTION_FAILED.
C36_ConfiguredPortIsFixed ==
  config.port # 0 =>
    /\ port = config.port
    /\ attempts = 0
    /\ err["main"].code # "PORT_DETECTION_FAILED"
    /\ \A p \in Procs : rout[p] # "set_http"

\* A server configured with a port was started, its child announced another
\* HTTP port and the reader has parsed it, and the server was stopped.
C36_Witness ==
  /\ config.port = CfgPort
  /\ lastOp["main"] = "stop_ok"
  /\ \E p \in Procs :
       /\ Announced(p) > 0
       /\ Announced(p) # config.port
       /\ rout[p] = "read"
  /\ port \in healthOk
  /\ port = CfgPort

\* C38: at most one spawned child is unterminated at any time, and it is the
\* one the process handle holds.
C38_OnlyTheHeldChildIsAlive ==
  \A p \in Procs : pstate[p] = "alive" => process = p

\* C40: once the reader has processed the stdout of a child that holds an
\* HTTP (resp. admin) announcement with a positive port, the field that was
\* undiscovered is positive, also when an earlier announcement of the same
\* kind carried port 0.
C40_PositiveAnnouncementIsStored ==
  \A p \in Procs :
    rout[p] = "read" =>
      LET buf == stdout_buffer[p]
      IN  /\ (/\ config.port = 0
              /\ \E i \in 1..Len(buf) : ParseInt(HttpMatch(<<buf[i]>>)) > 0)
               => port > 0
          /\ (\E i \in 1..Len(buf) : ParseInt(AdminMatch(<<buf[i]>>)) > 0)
               => (admin_port # None /\ admin_port > 0)

\* C39: start() returns while the admin port is unknown; a stub_response in
\* that state appends the stub locally and sends nothing, and the only
\* registration any later step sends is the one of the stub that the running
\* stub_response call is adding: neither the reader that stores the admin
\* port nor a later stub_response registers an earlier stub.
C39_LocalStubIsNeverRegistered ==
  /\ [][(pc["main"] = "sr_append" /\ ~AdminKnown /\ pc'["main"] # "sr_append")
          => /\ stubs' = Append(stubs, call.stub)
             /\ reqs' = reqs
             /\ pc'["main"] = "idle"
             /\ lastOp'["main"] = "stub_response_ok"]_vars
  /\ [][(reqs' # reqs /\ reqs' # <<>> /\ reqs'[Len(reqs')].verb = "POST")
          => /\ pc["main"] = "sr_post"
             /\ reqs' = Append(reqs, [verb |-> "POST", port |-> admin_port,
                                      path |-> "/__mockforge/api/mocks",
                                      json |-> MockConfig(call.stub)])]_vars
  /\ [][(\E p \in Procs : rout[p] # rout'[p]) => reqs' = reqs]_vars

\* start() has returned, the admin port is unknown, and a stub_response has
\* returned with the stub in the local list and no request sent.
C39_LocalOnly ==
  /\ pc["main"] = "idle"
  /\ lastOp["main"] = "stub_response_ok"
  /\ port \in healthOk
  /\ admin_port = None
  /\ Len(stubs) = 1
  /\ reqs = <<>>

\* Later the admin port is known and a second, different stub has been
\* registered: the request sent is the one of the second stub alone.
C39_Witness ==
  /\ pc["main"] = "idle"
  /\ lastOp["main"] = "stub_response_ok"
  /\ port \in healthOk
  /\ admin_port # None
  /\ Len(stubs) = 2
  /\ stubs[1] # stubs[2]
  /\ Len(reqs) = 1
  /\ reqs[1].json = MockConfig(stubs[2])
  /\ reqs[1].json # MockConfig(stubs[1])

\* The admin port the stdout of child p announces (0: none).
AdminAnnounced(p) ==
  LET m == AdminMatch(stdout_buffer[p]) IN IF m = <<>> THEN 0 ELSE ParseInt(m)

\* C37: stop() leaves the discovered ports as they are; a start() builds
\* --http-port from the port discovered before, not from the configured 0;
\* and an admin port once stored is kept whatever a later child announces,
\* so that registrations go on to the stored admin port.
C37_PortsSurviveRestart ==
  /\ [][(pc["main"] \in StopPcs /\ pc'["main"] # pc["main"])
          => UNCHANGED <<port, admin_port>>]_vars
  /\ [][(pc["main"] = "idle" /\ pc'["main"] = "spawn")
          => /\ args'[Len(args') - 4] = "--http-port"
             /\ args'[Len(args') - 3] = Str(port)]_vars
  /\ [][(admin_port # None /\ \A p \in Procs : rout[p] # "set_admin")
          => admin_port' = admin_port]_vars
  /\ [][(pc["main"] = "sr_post" /\ pc'["main"] # "sr_post")
          => /\ Len(reqs') = Len(reqs) + 1
             /\ reqs'[Len(reqs')].port = admin_port]_vars

\* A server configured with port 0 was started, stopped and started again on
\* the port its first child had announced; the second child announces another
\* admin port, and the stub added since was registered at the admin port of
\* the first child.
C37_Witness ==
  /\ config.port = 0
  /\ process = 2
  /\ pstate[1] # "alive"
  /\ port = Announced(1)
  /\ port \in healthOk
  /\ AdminAnnounced(1) > 0
  /\ AdminAnnounced(2) > 0
  /\ AdminAnnounced(2) # AdminAnnounced(1)
  /\ rout[2] = "read"
  /\ admin_port = AdminAnnounced(1)
  /\ lastOp["main"] = "stub_response_ok"
  /\ Len(reqs) = 1
  /\ reqs[1].verb = "POST"
  /\ reqs[1].port = AdminAnnounced(1)

\* The fields of the i-th stub built, its headers read through the reference.
StubView(i) == [built[i] EXCEPT !.headers = heap[built[i].headers]]

\* C34: a stub that build() has returned is immutable: no later call on a
\* builder changes any of its fields, and two stubs do not share a headers
\* dict.
C34_BuiltStubIsImmutable ==
  /\ [][\A i \in 1..Len(built) : StubView(i)' = StubView(i)]_vars
  /\ [](\A i, j \in 1..Len(built) : i # j => built[i].headers # built[j].headers)

====
